---- MODULE Spec2Model ----
(***************************************************************************)
(* A model of the jqsys medallion storage engine: the Gold pivot-and-merge *)
(* (jqsys/data/layers/gold.py) over the Silver partitions, the filesystem  *)
(* blob backend (jqsys/storage/backends/filesystem_backend.py) and the     *)
(* prefix wrapper (jqsys/core/storage/backends/prefixed_backend.py).       *)
(***************************************************************************)
EXTENDS Integers, Sequences, FiniteSets, TLC

(***************************************************************************)
(* Bounds of the model.                                                    *)
(***************************************************************************)
MaxDate == 2
MaxPart == 2
MaxVal == 2
MaxSilverWrites == 2
MaxTransforms == 2
MaxRewrites == 2
ChunkLen == 1
NoDate == 0

Codes == {"c1", "c2"}
Dates == 1..MaxDate
Vals == 1..MaxVal

(***************************************************************************)
(* Rows and Parquet blobs.  A row carries its stock code, its date and     *)
(* val, which stands for all the remaining columns.  A Parquet blob is the *)
(* rows followed by the footer; a blob without its footer (an empty or a   *)
(* truncated file) is not readable.                                        *)
(***************************************************************************)
Row == [code : Codes, date : Dates, val : Vals]
Footer == [code |-> "PAR1", date |-> 0, val |-> 0]

write_parquet(rows) == rows \o <<Footer>>
IsParquet(b) == Len(b) > 0 /\ b[Len(b)] = Footer
read_parquet(b) == SubSeq(b, 1, Len(b) - 1)

(***************************************************************************)
(* Sequence helpers.                                                       *)
(***************************************************************************)
Range(s) == {s[i] : i \in 1..Len(s)}
RemoveAt(s, i) == SubSeq(s, 1, i - 1) \o SubSeq(s, i + 1, Len(s))
DateSet(rows) == {rows[i].date : i \in 1..Len(rows)}

RECURSIVE Concat(_)
Concat(ss) == IF ss = <<>> THEN <<>> ELSE Head(ss) \o Concat(Tail(ss))

\* polars DataFrame.sort(by) with the default maintain_order=False: the rows
\* come back ordered by the key, rows of equal key in an order polars
\* chooses.  key is a function from rows to integers.
RECURSIVE SortOutcomes(_, _)
SortOutcomes(s, key) ==
    IF s = <<>> THEN {<<>>}
    ELSE LET least == {i \in 1..Len(s) : \A j \in 1..Len(s) : key[s[i]] <= key[s[j]]}
         IN  UNION {{<<s[i]>> \o t : t \in SortOutcomes(RemoveAt(s, i), key)} : i \in least}

CodeRank(c) == IF c = "c1" THEN 1 ELSE 2
ByDate == [r \in Row |-> r.date]
ByDateCode == [r \in Row |-> r.date * (Cardinality(Codes) + 1) + CodeRank(r.code)]
ByCodeDate == [r \in Row |-> CodeRank(r.code) * (MaxDate + 1) + r.date]

(***************************************************************************)
(* FilesystemBackend.  A key is a string, modelled as a sequence of tokens: *)
(* letters, the separator "/" and the suffix ".meta".  The directory tree   *)
(* under base_path is the pair [files, dirs]: files maps the path of every *)
(* regular file to its contents, dirs is the set of directories.  A path is *)
(* a key in normal form; <<>> is base_path itself.                         *)
(***************************************************************************)
Sep == "/"
MetaSuffix == ".meta"

StartsWith(s, pre) == Len(pre) <= Len(s) /\ SubSeq(s, 1, Len(pre)) = pre
DropFirst(s, n) == SubSeq(s, n + 1, Len(s))

\* Path(key).as_posix(): repeated and trailing separators go.
RECURSIVE as_posix(_)
as_posix(s) ==
    IF s = <<>> THEN <<>>
    ELSE IF Head(s) = Sep /\ (Len(s) = 1 \/ s[2] = Sep) THEN as_posix(Tail(s))
         ELSE <<Head(s)>> \o as_posix(Tail(s))

get_blob_path(key) == as_posix(key)
get_metadata_path(key) == get_blob_path(key) \o <<MetaSuffix>>

\* The directories above a path (base_path left out), and its name.
Ancestors(p) == {SubSeq(p, 1, i - 1) : i \in {j \in 2..Len(p) : p[j] = Sep}}
Parent(p) ==
    IF \E j \in 1..Len(p) : p[j] = Sep
    THEN SubSeq(p, 1, (CHOOSE j \in 1..Len(p) : p[j] = Sep /\ \A i \in j + 1..Len(p) : p[i] # Sep) - 1)
    ELSE <<>>
Name(p) == DropFirst(p, IF Parent(p) = <<>> THEN 0 ELSE Len(Parent(p)) + 1)
Under(p, d) == IF d = <<>> THEN p # <<>> ELSE StartsWith(p, d \o <<Sep>>)

IsFile(f, p) == p \in DOMAIN f.files
IsDir(f, p) == p = <<>> \/ p \in f.dirs
PathExists(f, p) == IsFile(f, p) \/ IsDir(f, p)

\* The contents of a file: the bytes of a blob, or the JSON document of a
\* sidecar with the key and size it records.
Blob(data) == [json |-> FALSE, data |-> data, key |-> <<>>, size |-> Len(data)]
Sidecar(key, size) == [json |-> TRUE, data |-> <<>>, key |-> key, size |-> size]

WriteFile(f, p, c) ==
    [f EXCEPT !.files = [x \in DOMAIN f.files \cup {p} |-> IF x = p THEN c ELSE f.files[x]]]
Unlink(f, p) == [f EXCEPT !.files = [x \in DOMAIN f.files \ {p} |-> f.files[x]]]

\* Path.mkdir(parents=True, exist_ok=True) on directory d raises when d or a
\* directory above it is a regular file; otherwise d and those above it exist.
MkdirFails(f, d) == \E a \in Ancestors(d) \cup {d} : IsFile(f, a)
Mkdir(f, d) == [f EXCEPT !.dirs = f.dirs \cup ((Ancestors(d) \cup {d}) \ {<<>>})]

Ok(f, v) == [status |-> "ok", value |-> v, fs |-> f]
NotFound(f) == [status |-> "NotFound", value |-> <<>>, fs |-> f]
StorageError(f) == [status |-> "BlobStorageError", value |-> <<>>, fs |-> f]

\* _save_metadata: the sidecar is written next to the blob.
save_metadata(f, key, size) ==
    IF IsDir(f, get_metadata_path(key)) THEN StorageError(f)
    ELSE Ok(WriteFile(f, get_metadata_path(key), Sidecar(key, size)), <<>>)

\* put(key, data)
fs_put(f, key, data) ==
    LET p == get_blob_path(key) IN
    IF MkdirFails(f, Parent(p)) THEN StorageError(f)
    ELSE IF IsDir(f, p) THEN StorageError(Mkdir(f, Parent(p)))
    ELSE save_metadata(WriteFile(Mkdir(f, Parent(p)), p, Blob(data)), key, Len(data))

\* get(key)
fs_get(f, key) ==
    LET p == get_blob_path(key) IN
    IF ~PathExists(f, p) THEN NotFound(f)
    ELSE IF IsDir(f, p) THEN StorageError(f)
    ELSE Ok(f, f.files[p])

\* exists(key)
fs_exists(f, key) == PathExists(f, get_blob_path(key))

\* _cleanup_empty_dirs(path)
RECURSIVE cleanup_empty_dirs(_, _)
cleanup_empty_dirs(f, d) ==
    IF d = <<>> \/ ~IsDir(f, d) THEN f
    ELSE IF \E x \in DOMAIN f.files \cup f.dirs : Parent(x) = d THEN f
    ELSE cleanup_empty_dirs([f EXCEPT !.dirs = f.dirs \ {d}], Parent(d))

\* delete(key)
fs_delete(f, key) ==
    LET p == get_blob_path(key)
        mp == get_metadata_path(key)
    IN  IF ~PathExists(f, p) THEN NotFound(f)
        ELSE IF IsDir(f, p) THEN StorageError(f)
        ELSE LET f1 == Unlink(f, p) IN
             IF ~PathExists(f1, mp) THEN Ok(cleanup_empty_dirs(f1, Parent(p)), <<>>)
             ELSE IF IsDir(f1, mp) THEN StorageError(f1)
             ELSE Ok(cleanup_empty_dirs(Unlink(f1, mp), Parent(p)), <<>>)

\* delete_many(keys): delete in a loop, every exception caught; results maps
\* each key to the outcome of its last delete.
RECURSIVE fs_delete_many_loop(_, _, _)
fs_delete_many_loop(f, keys, results) ==
    IF keys = <<>> THEN Ok(f, results)
    ELSE LET r == fs_delete(f, Head(keys)) IN
         fs_delete_many_loop(r.fs, Tail(keys),
             [k \in DOMAIN results \cup {Head(keys)} |->
                 IF k = Head(keys) THEN r.status = "ok" ELSE results[k]])

fs_delete_many(f, keys) == fs_delete_many_loop(f, keys, <<>>)

\* get_size(key): st_size of the path (of the directory, if it is one).
fs_get_size(f, key) ==
    LET p == get_blob_path(key) IN
    IF ~PathExists(f, p) THEN NotFound(f)
    ELSE IF IsDir(f, p) THEN Ok(f, [size |-> 0, dir |-> TRUE])
    ELSE Ok(f, [size |-> f.files[p].size, dir |-> FALSE])

\* get_metadata(key): from the sidecar, or from stat() when there is none.
fs_get_metadata(f, key) ==
    LET p == get_blob_path(key)
        mp == get_metadata_path(key)
    IN  IF ~PathExists(f, mp)
        THEN IF ~PathExists(f, p) THEN NotFound(f)
             ELSE Ok(f, [key |-> key, size |-> IF IsDir(f, p) THEN 0 ELSE f.files[p].size])
        ELSE IF IsDir(f, mp) \/ ~f.files[mp].json THEN StorageError(f)
        ELSE Ok(f, [key |-> f.files[mp].key, size |-> f.files[mp].size])

\* shutil.copy2(src, dst) writes dst, or dst/basename(src) when dst is a
\* directory.
copy_target(f, src, dst) == IF IsDir(f, dst) THEN dst \o <<Sep>> \o Name(src) ELSE dst
copy2_fails(f, src, dst) ==
    IsDir(f, src) \/ copy_target(f, src, dst) = src \/ IsDir(f, copy_target(f, src, dst))
copy2(f, src, dst) == WriteFile(f, copy_target(f, src, dst), f.files[src])

\* copy(source_key, dest_key): the blob is copied, then the sidecar, whose
\* key is rewritten.
fs_copy(f, source_key, dest_key) ==
    LET sp == get_blob_path(source_key)
        dp == get_blob_path(dest_key)
        sm == get_metadata_path(source_key)
        dm == get_metadata_path(dest_key)
    IN  IF ~PathExists(f, sp) THEN NotFound(f)
        ELSE IF MkdirFails(f, Parent(dp)) THEN StorageError(f)
        ELSE LET f1 == Mkdir(f, Parent(dp)) IN
             IF copy2_fails(f1, sp, dp) THEN StorageError(f1)
             ELSE LET f2 == copy2(f1, sp, dp) IN
                  IF ~PathExists(f2, sm) THEN Ok(f2, <<>>)
                  ELSE IF copy2_fails(f2, sm, dm) THEN StorageError(f2)
                  ELSE LET f3 == copy2(f2, sm, dm) IN
                       IF IsDir(f3, dm) \/ ~f3.files[dm].json THEN StorageError(f3)
                       ELSE Ok(WriteFile(f3, dm, Sidecar(dest_key, f3.files[dm].size)), <<>>)

\* None, for an optional string argument.
None == <<"None">>
Given(s) == s # None /\ s # <<>>

\* sorted() of Path objects compares them part by part, so a name sorts
\* before every longer name and "/" before every other character.
TokRank(c) ==
    CASE c = Sep -> 0
      [] c = MetaSuffix -> 1
      [] c = "a" -> 2
      [] c = "b" -> 3
      [] c = "d" -> 4
      [] OTHER -> 5

RECURSIVE PathLess(_, _)
PathLess(x, y) ==
    IF x = <<>> THEN y # <<>>
    ELSE IF y = <<>> THEN FALSE
    ELSE IF Head(x) = Head(y) THEN PathLess(Tail(x), Tail(y))
    ELSE TokRank(Head(x)) < TokRank(Head(y))

RECURSIVE SortPaths(_)
SortPaths(S) ==
    IF S = {} THEN <<>>
    ELSE LET m == CHOOSE x \in S : \A y \in S \ {x} : PathLess(x, y)
         IN  <<m>> \o SortPaths(S \ {m})

HasSuffixMeta(x) == x # <<>> /\ x[Len(x)] = MetaSuffix
Contains(s, c) == \E i \in 1..Len(s) : s[i] = c
\* remaining.split(delimiter)[0]
FirstPart(s) ==
    IF Contains(s, Sep)
    THEN SubSeq(s, 1, (CHOOSE i \in 1..Len(s) : s[i] = Sep /\ \A j \in 1..i - 1 : s[j] # Sep) - 1)
    ELSE s

ListResult(blobs, prefixes, is_truncated, next_marker) ==
    [blobs |-> blobs, prefixes |-> prefixes, is_truncated |-> is_truncated,
     next_marker |-> next_marker]

\* The loop of list_blobs over the sorted glob, from its i-th path on.
RECURSIVE list_loop(_, _, _, _, _, _, _, _, _, _)
list_loop(f, paths, i, prefix, delimiter, max_results, found_marker, blobs, prefixes, marker) ==
    IF i > Len(paths) THEN ListResult(blobs, prefixes, FALSE, None)
    ELSE
    LET rel_path == paths[i]
        next(fm, bs, ps) ==
            list_loop(f, paths, i + 1, prefix, delimiter, max_results, fm, bs, ps, marker)
    IN  IF HasSuffixMeta(rel_path) THEN next(found_marker, blobs, prefixes)
        ELSE IF IsDir(f, rel_path)
        THEN IF Given(delimiter) /\ (Given(prefix) => StartsWith(rel_path, prefix))
             THEN next(found_marker, blobs, prefixes \cup {rel_path \o delimiter})
             ELSE next(found_marker, blobs, prefixes)
        ELSE IF ~found_marker THEN next(rel_path = marker, blobs, prefixes)
        ELSE IF Given(prefix) /\ ~StartsWith(rel_path, prefix)
        THEN next(found_marker, blobs, prefixes)
        ELSE IF Given(delimiter) /\ Given(prefix)
                /\ Contains(DropFirst(rel_path, Len(prefix)), Sep)
        THEN next(found_marker, blobs,
                  prefixes \cup {prefix \o FirstPart(DropFirst(rel_path, Len(prefix))) \o delimiter})
        ELSE IF Len(blobs) + 1 > max_results
        THEN ListResult(blobs, prefixes, TRUE,
                        IF blobs # <<>> THEN blobs[Len(blobs)].key ELSE None)
        ELSE next(found_marker,
                  Append(blobs, [key |-> rel_path, size |-> f.files[rel_path].size]),
                  prefixes)

\* list_blobs(prefix, delimiter, max_results, marker)
fs_list_blobs(f, prefix, delimiter, max_results, marker) ==
    LET search_path == IF Given(prefix) THEN as_posix(prefix) ELSE <<>>
        found == {x \in DOMAIN f.files \cup f.dirs :
                    IF delimiter = None THEN Under(x, search_path)
                    ELSE Parent(x) = search_path}
    IN  IF ~PathExists(f, search_path) THEN Ok(f, ListResult(<<>>, {}, FALSE, None))
        ELSE Ok(f, list_loop(f, IF IsDir(f, search_path) THEN SortPaths(found) ELSE <<>>,
                             1, prefix, delimiter, max_results, marker = None, <<>>, {},
                             marker))

(***************************************************************************)
(* PrefixedBlobBackend over a FilesystemBackend delegate.                   *)
(***************************************************************************)
RECURSIVE rstrip(_)
rstrip(s) == IF s # <<>> /\ s[Len(s)] = Sep THEN rstrip(SubSeq(s, 1, Len(s) - 1)) ELSE s

\* Mutant of normalize_prefix: the prefix is used as it was given.
normalize_prefix_as_given(prefix) == prefix

\* __init__: self._prefix
normalize_prefix(prefix) == IF prefix # <<>> THEN rstrip(prefix) \o <<Sep>> ELSE <<>>

add_prefix(pfx, key) == IF pfx # <<>> THEN pfx \o key ELSE key

\* Mutant of remove_prefix: keys go back as the delegate gave them.
remove_prefix_never(pfx, key) == key

remove_prefix(pfx, key) ==
    IF pfx # <<>> /\ StartsWith(key, pfx) THEN DropFirst(key, Len(pfx)) ELSE key

\* Each wrapper operation, on delegate state f with self._prefix = pfx.
w_put(f, pfx, key, data) == fs_put(f, add_prefix(pfx, key), data)
w_get(f, pfx, key) == fs_get(f, add_prefix(pfx, key))
w_delete(f, pfx, key) == fs_delete(f, add_prefix(pfx, key))
w_exists(f, pfx, key) == Ok(f, fs_exists(f, add_prefix(pfx, key)))
w_get_size(f, pfx, key) == fs_get_size(f, add_prefix(pfx, key))
w_copy(f, pfx, source_key, dest_key) ==
    fs_copy(f, add_prefix(pfx, source_key), add_prefix(pfx, dest_key))
w_get_metadata(f, pfx, key) ==
    LET r == fs_get_metadata(f, add_prefix(pfx, key)) IN
    IF r.status = "ok" THEN Ok(f, [r.value EXCEPT !.key = remove_prefix(pfx, r.value.key)])
    ELSE r

\* list_blobs: what the delegate is asked, and what goes back to the caller.
w_full_prefix(pfx, prefix) ==
    IF Given(prefix) THEN add_prefix(pfx, prefix) ELSE IF pfx # <<>> THEN pfx ELSE None
w_delegate_marker(pfx, marker) == marker
w_next_marker(pfx, next_marker) == next_marker
w_list_blobs(f, pfx, prefix, delimiter, max_results, marker) ==
    LET result == fs_list_blobs(f, w_full_prefix(pfx, prefix), delimiter, max_results,
                                w_delegate_marker(pfx, marker)).value
    IN  Ok(f, ListResult(
            [i \in 1..Len(result.blobs) |->
                [result.blobs[i] EXCEPT !.key = remove_prefix(pfx, result.blobs[i].key)]],
            {remove_prefix(pfx, x) : x \in result.prefixes},
            result.is_truncated,
            w_next_marker(pfx, result.next_marker)))

(***************************************************************************)
(* resolve_config_inheritance.  A configuration dictionary maps the names  *)
(* of its entries to entries; an entry maps its keys, "__inherits__" among *)
(* them when it has a parent, to values.                                   *)
(***************************************************************************)
Inherits == "__inherits__"
CfgNames == {"a", "b", "c"}
CfgKeys == {"k1", "k2"}
CfgVals == [k1 |-> {"v1", "v2"}, k2 |-> {"v1"}]

Entries ==
    UNION {{e \in [D -> CfgNames \cup {"v1", "v2"}] :
               \A k \in D : IF k = Inherits THEN e[k] \in CfgNames ELSE e[k] \in CfgVals[k]}
           : D \in SUBSET (CfgKeys \cup {Inherits})}
Configs == UNION {[D -> Entries] : D \in SUBSET CfgNames}

\* The orders in which a dict can hold the names in S.
Orders(S) == {s \in [1..Cardinality(S) -> S] : \A i, j \in 1..Cardinality(S) : s[i] = s[j] => i = j}

Raised(cache) == [error |-> "ConfigError", value |-> <<>>, resolved_configs |-> cache]
Resolved(cache, name, resolved) ==
    [error |-> "none", value |-> resolved,
     resolved_configs |-> [n \in DOMAIN cache \cup {name} |->
                              IF n = name THEN resolved ELSE cache[n]]]

\* Mutant of override: the parent's values win.
override_parent_wins(resolved_parent, config) ==
    [k \in DOMAIN resolved_parent \cup (DOMAIN config \ {Inherits}) |->
        IF k \in DOMAIN resolved_parent THEN resolved_parent[k] ELSE config[k]]

\* The merge: the resolved parent, updated with the child's own keys.
override(resolved_parent, config) ==
    [k \in DOMAIN resolved_parent \cup (DOMAIN config \ {Inherits}) |->
        IF k \in DOMAIN config THEN config[k] ELSE resolved_parent[k]]

RECURSIVE resolve_single(_, _, _, _)
\* Mutant of resolve_single: an entry whose parent is missing resolves to
\* its own keys.
resolve_single_missing_ok(config_dict, name, visited, resolved_configs) ==
    LET config == config_dict[name] IN
    IF name \in visited THEN Raised(resolved_configs)
    ELSE IF name \in DOMAIN resolved_configs
    THEN [error |-> "none", value |-> resolved_configs[name],
          resolved_configs |-> resolved_configs]
    ELSE IF Inherits \notin DOMAIN config \/ config[Inherits] \notin DOMAIN config_dict
    THEN Resolved(resolved_configs, name, override(<<>>, config))
    ELSE LET r == resolve_single(config_dict, config[Inherits], visited \cup {name},
                                 resolved_configs)
         IN  IF r.error # "none" THEN r
             ELSE Resolved(r.resolved_configs, name, override(r.value, config))

\* _resolve_single(name, config_dict[name], visited), with the
\* resolved_configs it finds and leaves.
resolve_single(config_dict, name, visited, resolved_configs) ==
    LET config == config_dict[name] IN
    IF name \in visited THEN Raised(resolved_configs)
    ELSE IF name \in DOMAIN resolved_configs
    THEN [error |-> "none", value |-> resolved_configs[name],
          resolved_configs |-> resolved_configs]
    ELSE IF Inherits \notin DOMAIN config THEN Resolved(resolved_configs, name, config)
    ELSE IF config[Inherits] \notin DOMAIN config_dict THEN Raised(resolved_configs)
    ELSE LET r == resolve_single(config_dict, config[Inherits], visited \cup {name},
                                 resolved_configs)
         IN  IF r.error # "none" THEN r
             ELSE Resolved(r.resolved_configs, name, override(r.value, config))

\* The loop over config_dict.items(), from the i-th entry of the order on.
RECURSIVE resolve_loop(_, _, _, _)
resolve_loop(config_dict, order, i, resolved_configs) ==
    IF i > Len(order) THEN [error |-> "none", value |-> resolved_configs]
    ELSE IF order[i] \in DOMAIN resolved_configs
    THEN resolve_loop(config_dict, order, i + 1, resolved_configs)
    ELSE LET r == resolve_single(config_dict, order[i], {}, resolved_configs) IN
         IF r.error # "none" THEN [error |-> r.error, value |-> <<>>]
         ELSE resolve_loop(config_dict, order, i + 1, r.resolved_configs)

resolve_config_inheritance(config_dict, order) == resolve_loop(config_dict, order, 1, <<>>)

NoOutcome == [error |-> "not called", value |-> <<>>]

Without(fn, x) == [y \in DOMAIN fn \ {x} |-> fn[y]]
With(fn, x, v) == [y \in DOMAIN fn \cup {x} |-> IF y = x THEN v ELSE fn[y]]

(***************************************************************************)
(* BlobBackendRegistry.  A name is a string, modelled as a sequence of     *)
(* tokens with "." the namespace separator.  An instance carries its       *)
(* identity, its class, the configuration its FilesystemBackend was built  *)
(* from and, for a prefix wrapper, the identity of its delegate.           *)
(***************************************************************************)
Dot == "."
BackendConfigs == {[type |-> "filesystem", base_path |-> "path1"],
                   [type |-> "filesystem", base_path |-> "path2"],
                   [type |-> "filesystem", base_path |-> ""]}

\* name.split(".")[0] and "/".join(name.split(".")[1:])
RECURSIVE DotsToSlashes(_)
DotsToSlashes(s) ==
    IF s = <<>> THEN <<>>
    ELSE <<IF Head(s) = Dot THEN Sep ELSE Head(s)>> \o DotsToSlashes(Tail(s))
parse_name(name) ==
    IF Contains(name, Dot)
    THEN LET i == CHOOSE i \in 1..Len(name) : name[i] = Dot /\ \A j \in 1..i - 1 : name[j] # Dot
         IN  [base_name |-> SubSeq(name, 1, i - 1),
              prefix |-> DotsToSlashes(DropFirst(name, i))]
    ELSE [base_name |-> name, prefix |-> <<>>]

\* create_backend(config): raises when the configuration is not valid.
create_backend_raises(config) ==
    config.type # "filesystem" \/ config.base_path = ""
create_backend(config, id) ==
    [id |-> id, class |-> "FilesystemBackend", config |-> config, delegate |-> 0,
     prefix |-> <<>>]
PrefixedBlobBackend(base_backend, prefix, id) ==
    [id |-> id, class |-> "PrefixedBlobBackend", config |-> base_backend.config,
     delegate |-> base_backend.id, prefix |-> normalize_prefix(prefix)]
NoInstance == [id |-> 0, class |-> "none", config |-> [type |-> "", base_path |-> ""],
               delegate |-> 0, prefix |-> <<>>]

RegResult(status, value, cache, next) ==
    [status |-> status, value |-> value, cache |-> cache, next |-> next]

\* get_backend(name, use_cache) on configuration config, cache cache, with
\* next the identity of the next instance built.
get_backend(config, cache, next, name, use_cache) ==
    IF use_cache /\ name \in DOMAIN cache THEN RegResult("ok", cache[name], cache, next)
    ELSE
    LET base_name == parse_name(name).base_name
        prefix == parse_name(name).prefix
    IN  IF base_name \notin DOMAIN config
        THEN RegResult("BackendNotFoundError", NoInstance, cache, next)
        ELSE
        LET cached == use_cache /\ base_name \in DOMAIN cache IN
        IF ~cached /\ create_backend_raises(config[base_name])
        THEN RegResult("BackendConfigError", NoInstance, cache, next)
        ELSE
        LET base_backend == IF cached THEN cache[base_name]
                            ELSE create_backend(config[base_name], next)
            next1 == IF cached THEN next ELSE next + 1
            cache1 == IF use_cache /\ ~cached THEN With(cache, base_name, base_backend)
                      ELSE cache
            backend == IF prefix # <<>> THEN PrefixedBlobBackend(base_backend, prefix, next1)
                       ELSE base_backend
            next2 == IF prefix # <<>> THEN next1 + 1 ELSE next1
        IN  RegResult("ok", backend,
                      IF use_cache THEN With(cache1, name, backend) ELSE cache1, next2)

\* Mutant of register_evict: nothing leaves the cache.
register_evict_nothing(cache, name) == cache

\* Mutant of register_evict: only the entry of the name itself leaves the cache.
register_evict_exact(cache, name) ==
    [k \in DOMAIN cache \ {name} |-> cache[k]]

\* register(name, config): the cache without the keys that start with name.
register_evict(cache, name) ==
    [k \in {x \in DOMAIN cache : ~StartsWith(x, name)} |-> cache[k]]

(***************************************************************************)
(* BronzeStorage and SilverStorage.normalize_daily_quotes.  A value of a   *)
(* nullable column is a set: {} is null, {v} is the value v.  A Bronze      *)
(* partition daily_quotes/{date}/data.parquet is the sequence of its raw   *)
(* rows; every row carries the Date of its partition.                      *)
(***************************************************************************)
MaxRawRows == 2
MaxBronzeWrites == 1
MaxNormalize == 2

Null == {}
Value(x) == CHOOSE v \in x : TRUE

RawRow == [Code : {{"c1"}, Null}, Open : {{1}, {2}}, High : {{1}, {2}, Null},
           Low : {{1}, {2}}, Close : {{0}, {1}, {2}, Null}]
RawPartitions == UNION {[1..n -> RawRow] : n \in 0..MaxRawRows}

\* read_raw_data(endpoint, date): the rows of the partition, an empty frame
\* when the key does not exist.
read_raw_data(bronze, date) ==
    IF date \in DOMAIN bronze THEN bronze[date] ELSE <<>>

\* store_raw_response(endpoint, data, date): the partition of the date is
\* written, replacing the one that was there.
store_raw_response(bronze, date, data) ==
    [d \in DOMAIN bronze \cup {date} |-> IF d = date THEN data ELSE bronze[d]]

\* Comparison and disjunction of polars expressions: three-valued, "N" is
\* null.  DataFrame.filter keeps the rows whose predicate is "T".
Lt(a, b) ==
    IF a = Null \/ b = Null THEN "N"
    ELSE IF Value(a) < Value(b) THEN "T" ELSE "F"
Or(x, y) ==
    IF x = "T" \/ y = "T" THEN "T"
    ELSE IF x = "N" \/ y = "N" THEN "N" ELSE "F"

NormRow == [code : {{"c1"}, Null}, date : Dates, open : {{1}, {2}},
            high : {{1}, {2}, Null}, low : {{1}, {2}},
            close : {{0}, {1}, {2}, Null}, processed_at : 0..MaxNormalize]
ByCodeDateNorm == [r \in NormRow |-> r.date]

\* The select of _normalize_daily_quotes_schema for one raw row.
select_row(raw_row, date, now) ==
    [code |-> raw_row.Code, date |-> date, open |-> raw_row.Open,
     high |-> raw_row.High, low |-> raw_row.Low, close |-> raw_row.Close,
     processed_at |-> now]

not_null_core(r) == r.code # Null /\ r.close # Null

\* _normalize_daily_quotes_schema: select, drop the rows with a null code,
\* date or close, sort by (code, date).  The outcomes the sort can give.
normalize_daily_quotes_schema(raw_df, date, now) ==
    LET selected == [i \in 1..Len(raw_df) |-> select_row(raw_df[i], date, now)]
    IN  SortOutcomes(SelectSeq(selected, not_null_core), ByCodeDateNorm)

\* The predicate of the invalid_ohlc filter.
invalid_ohlc(r) ==
    Or(Or(Or(Or(Lt(r.high, r.low), Lt(r.high, r.open)), Lt(r.high, r.close)),
          Lt(r.open, r.low)),
       Lt(r.close, r.low))

\* _validate_daily_quotes: "ok", or the exception it raises.  The minimum
\* of an empty close column is None, and None <= 0 raises TypeError.
validate_daily_quotes(df) ==
    IF \E i \in 1..Len(df) : df[i].code = Null THEN "ValueError"
    ELSE IF \E i \in 1..Len(df) : df[i].close = Null THEN "ValueError"
    ELSE IF df = <<>> THEN "TypeError"
    ELSE IF \E i \in 1..Len(df) : Value(df[i].close) <= 0 THEN "ValueError"
    ELSE IF \E i \in 1..Len(df) : invalid_ohlc(df[i]) = "T" THEN "ValueError"
    ELSE "ok"

\* Silver keys are modelled by their date; NoDate stands for the None that
\* normalize_daily_quotes returns when Bronze has no rows.
NormResult(status, value, silver, read_bronze) ==
    [status |-> status, value |-> value, silver |-> silver, read_bronze |-> read_bronze]

\* Mutant of already_normalized: the partition is never taken as done.
already_normalized_never(silver, date, force_refresh) == FALSE

\* The test that opens normalize_daily_quotes.
already_normalized(silver, date, force_refresh) ==
    date \in DOMAIN silver /\ ~force_refresh

\* Mutant of normalize_store: the partition is put before it is validated.
normalize_store_unvalidated(silver, date, normalized) ==
    LET v == validate_daily_quotes(normalized)
        written == [d \in DOMAIN silver \cup {date} |->
                       IF d = date THEN normalized ELSE silver[d]]
    IN  NormResult(v, IF v = "ok" THEN date ELSE NoDate, written, TRUE)

\* Validation, then the put of the partition; an exception of the validation
\* leaves the function before the put.
normalize_store(silver, date, normalized) ==
    LET v == validate_daily_quotes(normalized)
    IN  IF v # "ok" THEN NormResult(v, NoDate, silver, TRUE)
        ELSE NormResult("ok", date,
                        [d \in DOMAIN silver \cup {date} |->
                            IF d = date THEN normalized ELSE silver[d]],
                        TRUE)

\* normalize_daily_quotes(date, force_refresh) at time now: its outcomes.
normalize_daily_quotes(bronze, silver, date, force_refresh, now) ==
    IF already_normalized(silver, date, force_refresh)
    THEN {NormResult("ok", date, silver, FALSE)}
    ELSE LET raw_df == read_raw_data(bronze, date) IN
         IF raw_df = <<>> THEN {NormResult("ok", NoDate, silver, TRUE)}
         ELSE {normalize_store(silver, date, normalized) :
                  normalized \in normalize_daily_quotes_schema(raw_df, date, now)}

(***************************************************************************)
(* ingest_daily_quotes.  A datetime is a day and a time of day, 0 being    *)
(* midnight; the key of a Bronze partition holds the day only.             *)
(***************************************************************************)
MaxIngest == 2
MaxIngestDates == 2
Times == {0, 1}
DateTimes == [day : Dates, time : Times]

\* date.strftime("%Y-%m-%d") and datetime.strptime(date_str, "%Y-%m-%d").
strftime(dt) == dt.day
strptime(date_str) == [day |-> date_str, time |-> 0]

\* list_available_dates(endpoint): the datetimes parsed from the keys.
list_available_dates_bronze(bronze) == {strptime(d) : d \in DOMAIN bronze}

\* What client.get_paginated can give for a date: rows, no rows, or an
\* exception.
ApiRow(v) == [Code |-> {"c1"}, Open |-> {v}, High |-> {v}, Low |-> {v}, Close |-> {v}]
ApiResponses == {[error |-> FALSE, data |-> <<>>],
                 [error |-> FALSE, data |-> <<ApiRow(1)>>],
                 [error |-> FALSE, data |-> <<ApiRow(2)>>],
                 [error |-> TRUE, data |-> <<>>]}

IngestState(bronze, fetched, written, total_records) ==
    [bronze |-> bronze, fetched |-> fetched, written |-> written,
     total_records |-> total_records]

\* One round of the loop of ingest_daily_quotes: the states it can leave.
ingest_one(st, processing_date, force) ==
    IF ~force /\ processing_date \in list_available_dates_bronze(st.bronze)
    THEN {st}
    ELSE {IF resp.error \/ resp.data = <<>>
          THEN IngestState(st.bronze, Append(st.fetched, strftime(processing_date)),
                           st.written, st.total_records)
          ELSE IngestState(store_raw_response(st.bronze, strftime(processing_date),
                                              resp.data),
                           Append(st.fetched, strftime(processing_date)),
                           Append(st.written, strftime(processing_date)),
                           st.total_records + Len(resp.data))
          : resp \in ApiResponses}

RECURSIVE ingest_loop(_, _, _)
ingest_loop(sts, dates, force) ==
    IF dates = <<>> THEN sts
    ELSE ingest_loop(UNION {ingest_one(st, Head(dates), force) : st \in sts},
                     Tail(dates), force)

\* ingest_daily_quotes(client, bronze, dates, force): its outcomes.
ingest_daily_quotes(bronze, dates, force) ==
    ingest_loop({IngestState(bronze, <<>>, <<>>, 0)}, dates, force)

VARIABLES
    silver,      \* Silver store: partition date -> rows of daily_prices/{date}/data.parquet
    gold,        \* Gold store: key -> bytes, for the keys that exist
    lastT,       \* the last transform_daily_prices call: arguments, what it read and did
    prevT,       \* the transform call before it, if Silver is unchanged since
    nSilver,     \* number of Silver partition writes so far
    nTransform,  \* number of transform calls so far
    wpc,         \* per stock: where its _update_stock_data call stands
    wdata,       \* per stock: the Parquet bytes that call is writing
    wold,        \* per stock: the bytes of the Gold file when the call began
    rd,          \* the last read of a Gold file by a concurrent reader
    nRewrites,   \* number of _update_stock_data calls begun
    fsys,        \* the directory tree under a FilesystemBackend's base_path
    fsLast,      \* the last backend call: arguments, tree before it, outcome
    expect,      \* path -> the bytes of the last put of it, no put, delete or copy since
    stored,      \* the paths written by a put or a copy and not deleted since
    nFsOps,      \* number of backend calls so far
    wgiven,      \* the prefix PrefixedBlobBackend was constructed with
    wprefix,     \* PrefixedBlobBackend._prefix
    cfgIn,       \* the configuration dictionary given to resolve_config_inheritance
    cfgOut,      \* the outcome of the last resolve_config_inheritance call
    regConfig,   \* BlobBackendRegistry._config: base name -> configuration
    regCache,    \* BlobBackendRegistry._backend_cache: name -> instance
    regNext,     \* the identity the next instance built will have
    regLast,     \* the last registry call and its outcome
    regSeen,     \* name -> identity a cached get_backend returned, no register or clear since
    regBarrier,  \* base name -> the value of regNext at its last register or clear_cache
    nRegOps,     \* number of registry calls so far
    bronze,      \* Bronze store: partition date -> raw rows of daily_quotes/{date}/data.parquet
    normLast,    \* the last normalize_daily_quotes call: arguments, Silver before it, outcome
    nBronze,     \* number of Bronze partition writes so far
    nNormalize,  \* number of normalize_daily_quotes calls so far
    ingLast,     \* the last ingest_daily_quotes call: arguments, Bronze before it, outcome
    nIngest,     \* number of ingest_daily_quotes calls so far
    dmLast,      \* the last delete_many call: keys, tree and stored keys before it, outcome, tree after it
    seqGold,     \* the Gold store as the _update_stock_data calls leave it when run one after the other
    overlapped,  \* an _update_stock_data call began while another one was under way
    faultLast,   \* the last transform run on a store whose delete can fail: what became of each stock
    bucket,      \* the object names of the MinIO bucket
    listLast,    \* the last listing call, with its arguments and what it returned
    listed,      \* Bronze listed_info: date -> the codes of the snapshot stored for it
    listedCache, \* Stock._listed_info_cache[bronze]: no entry, or (date, snapshot)
    goldStocks,  \* the codes gold.list_available_stocks() returns
    prices,      \* the Gold rows of one stock: date -> row
    stockLast,   \* the last call on the Stock facade, with its arguments and result
    nStockOps    \* writes made below the Stock facade

goldVars == <<silver, lastT, prevT, nSilver, nTransform>>
writerVars == <<wpc, wdata, wold, rd, nRewrites>>
fsVars == <<fsys, fsLast, expect, stored, nFsOps, wgiven, wprefix>>
cfgVars == <<cfgIn, cfgOut>>
regVars == <<regConfig, regCache, regNext, regLast, regSeen, regBarrier, nRegOps>>
pipeVars == <<bronze, normLast, nBronze, nNormalize>>
ingVars == <<ingLast, nIngest>>
dmVars == <<dmLast>>
seqVars == <<seqGold, overlapped>>
faultVars == <<faultLast>>
listVars == <<bucket, listLast>>
stockVars == <<listed, listedCache, goldStocks, prices, stockLast, nStockOps>>
tailVars == <<listVars, stockVars>>
lateVars == <<pipeVars, ingVars, dmVars, seqVars, faultVars, tailVars>>
auxVars == <<cfgVars, regVars, lateVars>>
coreVars == <<goldVars, gold, writerVars, fsVars>>
vars == <<silver, gold, lastT, prevT, nSilver, nTransform, wpc, wdata, wold, rd, nRewrites,
          fsys, fsLast, expect, stored, nFsOps, wgiven, wprefix, cfgIn, cfgOut,
          regConfig, regCache, regNext, regLast, regSeen, regBarrier, nRegOps,
          bronze, normLast, nBronze, nNormalize, ingLast, nIngest, dmLast,
          seqGold, overlapped, faultLast, bucket, listLast, listed, listedCache, goldStocks,
          prices, stockLast, nStockOps>>

(***************************************************************************)
(* The blob store as the tiers use it: a map from the keys that exist to   *)
(* their bytes.                                                            *)
(***************************************************************************)
exists(st, k) == k \in DOMAIN st
get(st, k) == st[k]
put(st, k, b) == [x \in DOMAIN st \cup {k} |-> IF x = k THEN b ELSE st[x]]
delete(st, k) == [x \in DOMAIN st \ {k} |-> st[x]]

(***************************************************************************)
(* SilverStorage                                                           *)
(***************************************************************************)
\* The partitions normalize_daily_quotes can write for date d: rows sorted by
\* (code, date), not deduplicated.  The rows enumerated are those of the day
\* itself (the Bronze "Date" column of a day's quotes is that day).
SilverPartitions(d) ==
    UNION {{s \in [1..n -> {r \in Row : r.date = d}] :
               \A i \in 1..n - 1 : ByCodeDate[s[i]] <= ByCodeDate[s[i + 1]]}
           : n \in 1..MaxPart}

list_available_dates == DOMAIN silver

RECURSIVE ConcatPartitions(_, _)
ConcatPartitions(d, e) ==
    IF d > e THEN <<>>
    ELSE (IF d \in DOMAIN silver THEN silver[d] ELSE <<>>) \o ConcatPartitions(d + 1, e)

InRange(s, start, end) == SelectSeq(s, LAMBDA r : start <= r.date /\ r.date <= end)

\* The possible results of read_daily_prices(start, end).
read_daily_prices(start, end) ==
    IF {d \in DOMAIN silver : start <= d /\ d <= end} = {} THEN {<<>>}
    ELSE SortOutcomes(InRange(ConcatPartitions(start, end), start, end), ByDateCode)

(***************************************************************************)
(* GoldStorage                                                             *)
(***************************************************************************)
\* Mutant of get_gold_key: one key for every stock.
get_gold_key_shared(code) == <<"daily_prices", "data.parquet">>

get_gold_key(code) == <<"daily_prices", code, "data.parquet">>
temp_key(k) == k \o <<".tmp">>

\* Mutant of unique_keep_last: keep="first".
RECURSIVE unique_keep_first(_)
unique_keep_first(s) ==
    IF s = <<>> THEN <<>>
    ELSE <<Head(s)>> \o unique_keep_first(SelectSeq(Tail(s), LAMBDA r : r.date # s[1].date))

\* DataFrame.unique(subset=["date"], keep="last"): of the rows of one date
\* the last one stays.  (The order of the result is left open by polars; the
\* sort that follows fixes it, the dates being distinct.)
RECURSIVE unique_keep_last(_)
unique_keep_last(s) ==
    IF s = <<>> THEN <<>>
    ELSE IF \E j \in 2..Len(s) : s[j].date = s[1].date
         THEN unique_keep_last(Tail(s))
         ELSE <<Head(s)>> \o unique_keep_last(Tail(s))

\* _write_atomic run to its end: put temp, put final from temp, delete temp.
write_atomic(st, k, rows) ==
    LET s1 == put(st, temp_key(k), write_parquet(rows))
        s2 == put(s1, k, get(s1, temp_key(k)))
    IN  delete(s2, temp_key(k))

\* Mutant of merge_stock: the early return "if new_data.is_empty()" is lost.
merge_stock_no_return(st, code, new_data, force) ==
    LET k == get_gold_key(code) IN
    IF exists(st, k)
    THEN LET existing == read_parquet(get(st, k))
             skip == DateSet(new_data) \cap DateSet(existing)
             fresh == IF ~force /\ skip # {}
                      THEN SelectSeq(new_data, LAMBDA r : r.date \notin skip)
                      ELSE new_data
         IN  [skip |-> FALSE, rows |-> unique_keep_last(existing \o fresh)]
    ELSE [skip |-> FALSE, rows |-> new_data]

\* The rows _update_stock_data merges, or <<>> with skip when it returns
\* without writing.
merge_stock(st, code, new_data, force) ==
    LET k == get_gold_key(code) IN
    IF exists(st, k)
    THEN LET existing == read_parquet(get(st, k))
             skip == DateSet(new_data) \cap DateSet(existing)
             fresh == IF ~force /\ skip # {}
                      THEN SelectSeq(new_data, LAMBDA r : r.date \notin skip)
                      ELSE new_data
         IN  IF ~force /\ skip # {} /\ fresh = <<>>
             THEN [skip |-> TRUE, rows |-> <<>>]
             ELSE [skip |-> FALSE, rows |-> unique_keep_last(existing \o fresh)]
    ELSE [skip |-> FALSE, rows |-> new_data]

\* The possible outcomes of _update_stock_data: the store afterwards and the
\* keys it put.
update_stock_data(st, code, new_data, force) ==
    LET m == merge_stock(st, code, new_data, force)
        k == get_gold_key(code)
    IN  IF m.skip THEN {[store |-> st, puts |-> {}]}
        ELSE {[store |-> write_atomic(st, k, sorted), puts |-> {temp_key(k), k}]
              : sorted \in SortOutcomes(m.rows, ByDate)}

CodeSeq == <<"c1", "c2">>

\* The loop "for stock_code in stock_codes" over the codes of silver_df.
RECURSIVE ForEachStock(_, _, _, _)
ForEachStock(st, codes, df, force) ==
    IF codes = <<>> THEN {[store |-> st, puts |-> {}, stocks_updated |-> 0, records_written |-> 0]}
    ELSE LET c == Head(codes)
             stock_data == SelectSeq(df, LAMBDA r : r.code = c)
         IN  IF stock_data = <<>> THEN ForEachStock(st, Tail(codes), df, force)
             ELSE UNION {{[store |-> r2.store,
                           puts |-> r1.puts \cup r2.puts,
                           stocks_updated |-> r2.stocks_updated + 1,
                           records_written |-> r2.records_written + Len(stock_data)]
                          : r2 \in ForEachStock(r1.store, Tail(codes), df, force)}
                         : r1 \in update_stock_data(st, c, stock_data, force)}

\* _write_atomic when storage.delete(temp_key) raises: both puts are done.
write_atomic_delete_fails(st, k, rows) ==
    LET s1 == put(st, temp_key(k), write_parquet(rows))
    IN  put(s1, k, get(s1, temp_key(k)))

\* The loop "for stock_code in stock_codes" on a store whose delete can
\* raise.  An exception of _update_stock_data is caught by the loop, which
\* logs it and goes on to the next stock without counting this one.  Each
\* outcome tells the stocks whose temp delete failed, the stocks counted and
\* the stocks whose final key holds the bytes the call wrote.
RECURSIVE ForEachStockDeleteFails(_, _, _, _)
ForEachStockDeleteFails(st, codes, df, force) ==
    IF codes = <<>>
    THEN {[store |-> st, failed |-> {}, counted |-> {}, final |-> {}, stocks_updated |-> 0]}
    ELSE LET c == Head(codes)
             k == get_gold_key(c)
             stock_data == SelectSeq(df, LAMBDA r : r.code = c)
             m == merge_stock(st, c, stock_data, force)
             done == IF m.skip THEN {[store |-> st, raised |-> FALSE, wrote |-> FALSE]}
                     ELSE UNION {{[store |-> write_atomic(st, k, sorted),
                                   raised |-> FALSE, wrote |-> TRUE],
                                  [store |-> write_atomic_delete_fails(st, k, sorted),
                                   raised |-> TRUE, wrote |-> TRUE]}
                                 : sorted \in SortOutcomes(m.rows, ByDate)}
         IN  IF stock_data = <<>> THEN ForEachStockDeleteFails(st, Tail(codes), df, force)
             ELSE UNION {{[store |-> r2.store,
                           failed |-> r2.failed \cup (IF r1.raised THEN {c} ELSE {}),
                           counted |-> r2.counted \cup (IF r1.raised THEN {} ELSE {c}),
                           final |-> r2.final \cup
                                     (IF r1.wrote /\ get(r1.store, k) = get(r2.store, k)
                                      THEN {c} ELSE {}),
                           stocks_updated |-> r2.stocks_updated
                                              + (IF r1.raised THEN 0 ELSE 1)]
                          : r2 \in ForEachStockDeleteFails(r1.store, Tail(codes), df, force)}
                         : r1 \in done}

\* _update_stock_data on a store any call of which can raise: the outcomes
\* with the store they leave.  The exists or get of the Gold key raises; or
\* the put of the temp key; or the put of the final key; or the delete of
\* the temp key; or nothing raises.
update_stock_data_faults(st, code, new_data, force) ==
    LET m == merge_stock(st, code, new_data, force)
        k == get_gold_key(code)
    IN  {[store |-> st, raised |-> TRUE]} \cup
        (IF m.skip THEN {[store |-> st, raised |-> FALSE]}
         ELSE UNION {{[store |-> put(st, temp_key(k), write_parquet(sorted)),
                       raised |-> TRUE],
                      [store |-> write_atomic_delete_fails(st, k, sorted), raised |-> TRUE],
                      [store |-> write_atomic(st, k, sorted), raised |-> FALSE]}
                     : sorted \in SortOutcomes(m.rows, ByDate)})

\* Mutant of on_exception: the loop ends at the first exception.
on_exception_stop(codes) == <<>>

\* "except Exception: ... continue": the loop goes on with the stocks left.
on_exception(codes) == codes

\* The loop "for stock_code in stock_codes" on such a store, with the stocks
\* whose update raised and the stocks counted.
RECURSIVE ForEachStockFaults(_, _, _, _)
ForEachStockFaults(st, codes, df, force) ==
    IF codes = <<>>
    THEN {[store |-> st, failed |-> {}, counted |-> {}, stocks_updated |-> 0,
           records_written |-> 0]}
    ELSE LET c == Head(codes)
             stock_data == SelectSeq(df, LAMBDA r : r.code = c)
         IN  IF stock_data = <<>> THEN ForEachStockFaults(st, Tail(codes), df, force)
             ELSE UNION {{[store |-> r2.store,
                           failed |-> r2.failed \cup (IF r1.raised THEN {c} ELSE {}),
                           counted |-> r2.counted \cup (IF r1.raised THEN {} ELSE {c}),
                           stocks_updated |-> r2.stocks_updated
                                              + (IF r1.raised THEN 0 ELSE 1),
                           records_written |-> r2.records_written
                                               + (IF r1.raised THEN 0 ELSE Len(stock_data))]
                          : r2 \in ForEachStockFaults(
                                       r1.store,
                                       IF r1.raised THEN on_exception(Tail(codes))
                                       ELSE Tail(codes),
                                       df, force)}
                         : r1 \in update_stock_data_faults(st, c, stock_data, force)}

Zeros(st) ==
    {[store |-> st, df |-> <<>>, puts |-> {},
      stats |-> [dates_processed |-> 0, stocks_updated |-> 0, records_written |-> 0]]}

SetMin(S) == CHOOSE x \in S : \A y \in S : x <= y
SetMax(S) == CHOOSE x \in S : \A y \in S : y <= x

\* The possible outcomes of transform_daily_prices(start_date, end_date,
\* force_refresh) on the Gold store st.
TransformOutcomes(st, start_date, end_date, force) ==
    IF list_available_dates = {} THEN Zeros(st)
    ELSE LET s == IF start_date = NoDate THEN SetMin(list_available_dates) ELSE start_date
             e == IF end_date = NoDate THEN SetMax(list_available_dates) ELSE end_date
         IN  IF {d \in list_available_dates : s <= d /\ d <= e} = {} THEN Zeros(st)
             ELSE UNION {IF df = <<>> THEN Zeros(st)
                         ELSE {[store |-> r.store, df |-> df, puts |-> r.puts,
                                stats |-> [dates_processed |-> Cardinality(DateSet(df)),
                                           stocks_updated |-> r.stocks_updated,
                                           records_written |-> r.records_written]]
                               : r \in ForEachStock(st, CodeSeq, df, force)}
                         : df \in read_daily_prices(s, e)}

NoCall == [kind |-> "none", start |-> NoDate, end |-> NoDate, force |-> FALSE,
           pre |-> <<>>, df |-> <<>>, puts |-> {},
           stats |-> [dates_processed |-> 0, stocks_updated |-> 0, records_written |-> 0]]

NoArgs == [kind |-> "none", start |-> NoDate, end |-> NoDate, force |-> FALSE]

NoRead == [code |-> "none", rewriting |-> FALSE, found |-> FALSE, bytes |-> <<>>,
           old |-> <<>>, new |-> <<>>]

\* A backend call, as fsLast keeps it.
FsCall(op, key, key2, data, absent, pre, r) ==
    [op |-> op, key |-> key, key2 |-> key2, data |-> data, absent |-> absent,
     prefix |-> None, delimiter |-> None, max_results |-> 0, marker |-> None,
     dmarker |-> None, dnext |-> None,
     pre |-> pre, status |-> r.status, value |-> r.value]

EmptyFs == [files |-> <<>>, dirs |-> {}]
NoFsCall == FsCall("none", <<>>, <<>>, <<>>, FALSE, EmptyFs, Ok(EmptyFs, <<>>))

\* A FilesystemBackend on an empty base_path, under no wrapper.
InitBackend ==
    /\ fsys = EmptyFs
    /\ fsLast = NoFsCall
    /\ expect = <<>>
    /\ stored = {}
    /\ nFsOps = 0

InitNoWrapper ==
    /\ wgiven = <<>>
    /\ wprefix = <<>>

InitWriters ==
    /\ wpc = [c \in Codes |-> "idle"]
    /\ wdata = [c \in Codes |-> <<>>]
    /\ wold = [c \in Codes |-> <<>>]
    /\ rd = NoRead
    /\ nRewrites = 0

\* The components that a specification leaves aside.
RegBases == {<<"de", "v">>, <<"de">>}
RegNames == RegBases \cup {b \o <<Dot, "img">> : b \in RegBases}

RegCall(op, name, use_cache, config, seen, evicted, r) ==
    [op |-> op, name |-> name, use_cache |-> use_cache, config |-> config, seen |-> seen,
     evicted |-> evicted, status |-> r.status, value |-> r.value]
NoRegCall == RegCall("none", <<>>, FALSE, NoInstance.config, 0, {},
                     RegResult("ok", NoInstance, <<>>, 1))

\* BlobBackendRegistry({"dev": ...}): one entry configured, nothing cached.
InitRegistry ==
    /\ regConfig = [b \in {<<"de", "v">>} |-> [type |-> "filesystem", base_path |-> "path1"]]
    /\ regCache = <<>>
    /\ regNext = 1
    /\ regLast = NoRegCall
    /\ regSeen = [n \in RegNames |-> 0]
    /\ regBarrier = [b \in RegBases |-> 1]
    /\ nRegOps = 0

InitNoConfig ==
    /\ cfgIn = <<>>
    /\ cfgOut = NoOutcome

\* The components that a specification leaves aside.
NoNormalize == [n |-> 0, date |-> NoDate, force_refresh |-> FALSE, existed |-> FALSE,
                pre |-> <<>>, raw_df |-> <<>>, status |-> "not called", value |-> NoDate,
                read_bronze |-> FALSE]

\* No Bronze partition, no normalize call made.
InitPipeline ==
    /\ bronze = <<>>
    /\ normLast = NoNormalize
    /\ nBronze = 0
    /\ nNormalize = 0

NoIngest == [dates |-> <<>>, force |-> FALSE, pre |-> <<>>, fetched |-> <<>>,
             written |-> <<>>, total_records |-> 0]

InitNoIngest ==
    /\ ingLast = NoIngest
    /\ nIngest = 0

NoDeleteMany == [op |-> "none", keys |-> <<>>, pre |-> EmptyFs, stored |-> {},
                 status |-> "ok", value |-> <<>>, post |-> EmptyFs]

InitNoDeleteMany == dmLast = NoDeleteMany

InitSequential ==
    /\ seqGold = <<>>
    /\ overlapped = FALSE

NoFault == [kind |-> "none", failed |-> {}, counted |-> {}, final |-> {}, temps |-> {},
            stocks_updated |-> 0, records_written |-> 0, pre |-> <<>>, df |-> <<>>,
            force |-> FALSE]

InitNoFault == faultLast = NoFault

NoListing == [op |-> "none"]
InitNoListing == bucket = {} /\ listLast = NoListing

NoStockCall == [op |-> "none"]
InitNoStock ==
    /\ listed = <<>>
    /\ listedCache = {}
    /\ goldStocks = {}
    /\ prices = <<>>
    /\ stockLast = NoStockCall
    /\ nStockOps = 0

InitLate ==
    /\ InitPipeline
    /\ InitNoIngest
    /\ InitNoDeleteMany
    /\ InitSequential
    /\ InitNoFault
    /\ InitNoListing
    /\ InitNoStock

InitAux ==
    /\ InitNoConfig
    /\ InitRegistry
    /\ InitLate

\* No Silver partition, no Gold file, no call under way.
InitLayers ==
    /\ silver = <<>>
    /\ gold = <<>>
    /\ lastT = NoCall
    /\ prevT = NoArgs
    /\ nSilver = 0
    /\ nTransform = 0
    /\ InitWriters

InitGold ==
    /\ InitLayers
    /\ InitBackend
    /\ InitNoWrapper
    /\ InitAux

\* A Silver partition is written (normalize_daily_quotes, first or forced).
SilverWrite ==
    /\ nSilver < MaxSilverWrites
    /\ \E d \in Dates : \E rows \in SilverPartitions(d) :
          silver' = put(silver, d, rows)
    /\ nSilver' = nSilver + 1
    /\ prevT' = NoArgs
    /\ lastT' = NoCall
    /\ UNCHANGED <<gold, nTransform>>
    /\ UNCHANGED <<writerVars, fsVars, auxVars>>

transform_daily_prices ==
    /\ nTransform < MaxTransforms
    /\ \E start_date \in Dates \cup {NoDate}, end_date \in Dates \cup {NoDate},
          force \in BOOLEAN :
          \E r \in TransformOutcomes(gold, start_date, end_date, force) :
             /\ gold' = r.store
             /\ lastT' = [kind |-> "transform", start |-> start_date, end |-> end_date,
                          force |-> force, pre |-> gold, df |-> r.df, puts |-> r.puts,
                          stats |-> r.stats]
    /\ prevT' = [kind |-> lastT.kind, start |-> lastT.start, end |-> lastT.end,
                 force |-> lastT.force]
    /\ nTransform' = nTransform + 1
    /\ UNCHANGED <<silver, nSilver>>
    /\ UNCHANGED <<writerVars, fsVars, auxVars>>

NextGold == SilverWrite \/ transform_daily_prices

SpecGold == InitGold /\ [][NextGold]_vars

(***************************************************************************)
(* _update_stock_data step by step, next to a reader of the Gold files.    *)
(* The store is the filesystem backend: put(key, bytes) is                 *)
(* blob_path.write_bytes(data), which opens the file for writing (creating *)
(* or truncating it) and then writes the bytes; a reader of the same path  *)
(* gets whatever the file holds at that moment.                            *)
(***************************************************************************)
Least(a, b) == IF a <= b THEN a ELSE b

\* open(blob_path, "wb"): the file exists and is empty.
open_wb(st, k) == put(st, k, <<>>)

\* One more chunk of data reaches the file.
write_chunk(st, k, data) ==
    put(st, k, SubSeq(data, 1, Least(Len(get(st, k)) + ChunkLen, Len(data))))

\* The rows a caller hands to _update_stock_data for one stock.
NewData(c) ==
    UNION {{s \in [1..n -> {r \in Row : r.code = c}] :
               \A i \in 1..n - 1 : s[i].date <= s[i + 1].date}
           : n \in 1..MaxPart}

\* The same call made on the store seq, on which the calls run one after the
\* other: the whole of _update_stock_data.  Where the sort leaves the order
\* of equal dates open, the order is the one of the bytes data.
SequentialUpdate(seq, c, new_data, force, data) ==
    LET outcomes == {o.store : o \in update_stock_data(seq, c, new_data, force)}
        same == {st \in outcomes : exists(st, get_gold_key(c))
                                     /\ get(st, get_gold_key(c)) = data}
    IN  IF same # {} THEN CHOOSE st \in same : TRUE
        ELSE CHOOSE st \in outcomes : TRUE

\* _update_stock_data up to the start of _write_atomic: read, merge, sort,
\* serialize.
BeginUpdate(c) ==
    /\ wpc[c] = "idle"
    /\ nRewrites < MaxRewrites
    /\ nRewrites' = nRewrites + 1
    /\ \E new_data \in NewData(c), force \in BOOLEAN :
          LET m == merge_stock(gold, c, new_data, force) IN
          /\ IF m.skip
             THEN UNCHANGED <<wpc, wdata, wold>>
             ELSE \E sorted \in SortOutcomes(m.rows, ByDate) :
                     /\ wdata' = [wdata EXCEPT ![c] = write_parquet(sorted)]
                     /\ wold' = [wold EXCEPT ![c] =
                                    IF exists(gold, get_gold_key(c))
                                    THEN get(gold, get_gold_key(c)) ELSE <<>>]
                     /\ wpc' = [wpc EXCEPT ![c] = "put_temp"]
          /\ seqGold' = SequentialUpdate(seqGold, c, new_data, force, wdata'[c])
    /\ overlapped' = (overlapped \/ \E other \in Codes \ {c} : wpc[other] # "idle")
    /\ UNCHANGED <<gold, rd>>
    /\ UNCHANGED <<goldVars, fsVars, cfgVars, regVars, pipeVars, ingVars, dmVars, faultVars, tailVars>>

\* storage.put(temp_key, ...): the temp file is opened.
PutTempOpen(c) ==
    /\ wpc[c] = "put_temp"
    /\ gold' = open_wb(gold, temp_key(get_gold_key(c)))
    /\ wpc' = [wpc EXCEPT ![c] = "write_temp"]
    /\ UNCHANGED <<wdata, wold, rd, nRewrites>>
    /\ UNCHANGED <<goldVars, fsVars, auxVars>>

\* ... and written.
PutTempWrite(c) ==
    /\ wpc[c] = "write_temp"
    /\ LET k == temp_key(get_gold_key(c)) IN
          /\ gold' = write_chunk(gold, k, wdata[c])
          /\ wpc' = [wpc EXCEPT ![c] =
                        IF Len(gold'[k]) = Len(wdata[c]) THEN "put_final" ELSE "write_temp"]
    /\ UNCHANGED <<wdata, wold, rd, nRewrites>>
    /\ UNCHANGED <<goldVars, fsVars, auxVars>>

\* storage.put(blob_key, storage.get(temp_key)): the temp key is read back and
\* the final file is opened.
PutFinalOpen(c) ==
    /\ wpc[c] = "put_final"
    /\ wdata' = [wdata EXCEPT ![c] = get(gold, temp_key(get_gold_key(c)))]
    /\ gold' = open_wb(gold, get_gold_key(c))
    /\ wpc' = [wpc EXCEPT ![c] = "write_final"]
    /\ UNCHANGED <<wold, rd, nRewrites>>
    /\ UNCHANGED <<goldVars, fsVars, auxVars>>

\* ... and written.
PutFinalWrite(c) ==
    /\ wpc[c] = "write_final"
    /\ LET k == get_gold_key(c) IN
          /\ gold' = write_chunk(gold, k, wdata[c])
          /\ wpc' = [wpc EXCEPT ![c] =
                        IF Len(gold'[k]) = Len(wdata[c]) THEN "delete_temp" ELSE "write_final"]
    /\ UNCHANGED <<wdata, wold, rd, nRewrites>>
    /\ UNCHANGED <<goldVars, fsVars, auxVars>>

\* storage.delete(temp_key)
DeleteTemp(c) ==
    /\ wpc[c] = "delete_temp"
    /\ gold' = delete(gold, temp_key(get_gold_key(c)))
    /\ wpc' = [wpc EXCEPT ![c] = "idle"]
    /\ UNCHANGED <<wdata, wold, rd, nRewrites>>
    /\ UNCHANGED <<goldVars, fsVars, auxVars>>

\* A reader gets the final key (read_stock_prices: exists, then get).
ReadFinal(c) ==
    /\ rd' = [code |-> c,
              rewriting |-> wpc[c] # "idle" /\ wold[c] # <<>>,
              found |-> exists(gold, get_gold_key(c)),
              bytes |-> IF exists(gold, get_gold_key(c)) THEN get(gold, get_gold_key(c))
                        ELSE <<>>,
              old |-> wold[c],
              new |-> wdata[c]]
    /\ UNCHANGED <<gold, wpc, wdata, wold, nRewrites>>
    /\ UNCHANGED <<goldVars, fsVars, auxVars>>

Writer(c) ==
    \/ BeginUpdate(c)
    \/ PutTempOpen(c)
    \/ PutTempWrite(c)
    \/ PutFinalOpen(c)
    \/ PutFinalWrite(c)
    \/ DeleteTemp(c)

WriterCode == "c1"

NextAtomic == Writer(WriterCode) \/ ReadFinal(WriterCode)

SpecAtomic == InitGold /\ [][NextAtomic]_vars

(***************************************************************************)
(* The FilesystemBackend, called directly.                                 *)
(***************************************************************************)
MaxFsOps == 3
Bytes == {<<>>, <<1>>}
FsKeys == {<<"a">>, <<"a", MetaSuffix>>, <<"a", Sep>>, <<"d">>, <<"d", Sep, "a">>}

InitFs ==
    /\ InitLayers
    /\ InitBackend
    /\ InitNoWrapper
    /\ InitAux

OtherVars == <<silver, gold, lastT, prevT, nSilver, nTransform, wpc, wdata, wold, rd, nRewrites>>

FsPut ==
    \E key \in FsKeys, data \in Bytes :
        LET r == fs_put(fsys, key, data)
            path == get_blob_path(key)
        IN  /\ nFsOps < MaxFsOps
            /\ fsys' = r.fs
            /\ fsLast' = FsCall("put", key, <<>>, data, path \notin stored, fsys, r)
            /\ expect' = IF r.status = "ok" THEN With(expect, path, data)
                         ELSE Without(expect, path)
            /\ stored' = IF r.status = "ok" THEN stored \cup {path} ELSE stored
            /\ nFsOps' = nFsOps + 1
            /\ UNCHANGED <<wgiven, wprefix, OtherVars, auxVars>>

FsGet ==
    \E key \in FsKeys :
        LET r == fs_get(fsys, key) IN
        /\ nFsOps < MaxFsOps
        /\ fsLast' = FsCall("get", key, <<>>, <<>>, get_blob_path(key) \notin stored, fsys, r)
        /\ nFsOps' = nFsOps + 1
        /\ UNCHANGED <<fsys, expect, stored, wgiven, wprefix, OtherVars, auxVars>>

FsExists ==
    \E key \in FsKeys :
        /\ nFsOps < MaxFsOps
        /\ fsLast' = FsCall("exists", key, <<>>, <<>>, get_blob_path(key) \notin stored, fsys,
                            Ok(fsys, fs_exists(fsys, key)))
        /\ nFsOps' = nFsOps + 1
        /\ UNCHANGED <<fsys, expect, stored, wgiven, wprefix, OtherVars, auxVars>>

FsDelete ==
    \E key \in FsKeys :
        LET r == fs_delete(fsys, key)
            path == get_blob_path(key)
        IN  /\ nFsOps < MaxFsOps
            /\ fsys' = r.fs
            /\ fsLast' = FsCall("delete", key, <<>>, <<>>, path \notin stored, fsys, r)
            /\ expect' = Without(expect, path)
            /\ stored' = stored \ {path}
            /\ nFsOps' = nFsOps + 1
            /\ UNCHANGED <<wgiven, wprefix, OtherVars, auxVars>>

FsCopy ==
    \E source_key \in FsKeys, dest_key \in FsKeys :
        LET r == fs_copy(fsys, source_key, dest_key)
            written == {get_blob_path(dest_key),
                        copy_target(fsys, get_blob_path(source_key), get_blob_path(dest_key))}
        IN  /\ nFsOps < MaxFsOps
            /\ fsys' = r.fs
            /\ fsLast' = FsCall("copy", source_key, dest_key, <<>>,
                                get_blob_path(source_key) \notin stored, fsys, r)
            /\ expect' = [y \in DOMAIN expect \ written |-> expect[y]]
            /\ stored' = IF r.status = "NotFound" THEN stored
                         ELSE stored \cup (written \cap DOMAIN r.fs.files)
            /\ nFsOps' = nFsOps + 1
            /\ UNCHANGED <<wgiven, wprefix, OtherVars, auxVars>>

NextFs == FsPut \/ FsGet \/ FsExists \/ FsDelete \/ FsCopy

SpecFs == InitFs /\ [][NextFs]_vars

(***************************************************************************)
(* A PrefixedBlobBackend and its FilesystemBackend delegate, both in use.  *)
(***************************************************************************)
MaxWrapOps == 3
MaxResults == 2
Prefixes == {<<>>, <<"p">>, <<"p", Sep>>, <<"p", Sep, Sep>>}
WrapKeys == {<<"a">>, <<"b">>, <<"p", Sep, "a">>}
DelegateKeys == {<<"b">>, <<"p", Sep, "a">>, <<"p", "a">>}
ListPrefixes == {None, <<"a">>, <<"p">>, <<"p", Sep>>}
Delimiters == {None, <<Sep>>}
Markers == {None, <<"a">>, <<"p", Sep, "a">>}

InitPrefix ==
    /\ InitLayers
    /\ InitBackend
    /\ wgiven \in Prefixes
    /\ wprefix = normalize_prefix(wgiven)
    /\ InitAux

WrapStep(call) ==
    /\ nFsOps < MaxWrapOps
    /\ fsLast' = call
    /\ nFsOps' = nFsOps + 1
    /\ UNCHANGED <<expect, stored, wgiven, wprefix, OtherVars, auxVars>>

\* The delegate is written directly, not through the wrapper.
DelegatePut ==
    \E key \in DelegateKeys, data \in Bytes :
        LET r == fs_put(fsys, key, data) IN
        /\ fsys' = r.fs
        /\ WrapStep(FsCall("delegate_put", key, <<>>, data, FALSE, fsys, r))

WrapPut ==
    \E key \in WrapKeys, data \in Bytes :
        LET r == w_put(fsys, wprefix, key, data) IN
        /\ fsys' = r.fs
        /\ WrapStep(FsCall("put", key, <<>>, data, FALSE, fsys, r))

WrapGet ==
    \E key \in WrapKeys :
        LET r == w_get(fsys, wprefix, key) IN
        /\ fsys' = r.fs
        /\ WrapStep(FsCall("get", key, <<>>, <<>>, FALSE, fsys, r))

WrapDelete ==
    \E key \in WrapKeys :
        LET r == w_delete(fsys, wprefix, key) IN
        /\ fsys' = r.fs
        /\ WrapStep(FsCall("delete", key, <<>>, <<>>, FALSE, fsys, r))

WrapExists ==
    \E key \in WrapKeys :
        LET r == w_exists(fsys, wprefix, key) IN
        /\ fsys' = r.fs
        /\ WrapStep(FsCall("exists", key, <<>>, <<>>, FALSE, fsys, r))

WrapGetMetadata ==
    \E key \in WrapKeys :
        LET r == w_get_metadata(fsys, wprefix, key) IN
        /\ fsys' = r.fs
        /\ WrapStep(FsCall("get_metadata", key, <<>>, <<>>, FALSE, fsys, r))

WrapGetSize ==
    \E key \in WrapKeys :
        LET r == w_get_size(fsys, wprefix, key) IN
        /\ fsys' = r.fs
        /\ WrapStep(FsCall("get_size", key, <<>>, <<>>, FALSE, fsys, r))

WrapCopy ==
    \E source_key \in WrapKeys, dest_key \in WrapKeys :
        LET r == w_copy(fsys, wprefix, source_key, dest_key) IN
        /\ fsys' = r.fs
        /\ WrapStep(FsCall("copy", source_key, dest_key, <<>>, FALSE, fsys, r))

WrapListBlobs ==
    \E prefix \in ListPrefixes, delimiter \in Delimiters,
       max_results \in 1..MaxResults, marker \in Markers :
        LET r == w_list_blobs(fsys, wprefix, prefix, delimiter, max_results, marker)
            dmarker == w_delegate_marker(wprefix, marker)
            d == fs_list_blobs(fsys, w_full_prefix(wprefix, prefix), delimiter, max_results,
                               dmarker)
        IN  /\ fsys' = r.fs
            /\ WrapStep([FsCall("list_blobs", <<>>, <<>>, <<>>, FALSE, fsys, r) EXCEPT
                            !.prefix = prefix, !.delimiter = delimiter,
                            !.max_results = max_results, !.marker = marker,
                            !.dmarker = dmarker, !.dnext = d.value.next_marker])

NextPrefix ==
    \/ DelegatePut
    \/ WrapPut
    \/ WrapGet
    \/ WrapDelete
    \/ WrapExists
    \/ WrapGetMetadata
    \/ WrapGetSize
    \/ WrapCopy
    \/ WrapListBlobs

SpecPrefix == InitPrefix /\ [][NextPrefix]_vars

(***************************************************************************)
(* resolve_config_inheritance, applied to every configuration dictionary   *)
(* over CfgNames, in every order of its entries.                           *)
(***************************************************************************)
InitConfig ==
    /\ InitLayers
    /\ InitBackend
    /\ InitNoWrapper
    /\ cfgIn \in Configs
    /\ cfgOut = NoOutcome
    /\ InitRegistry
    /\ InitLate

ResolveConfig ==
    \E order \in Orders(DOMAIN cfgIn) :
        /\ cfgOut = NoOutcome
        /\ cfgOut' = resolve_config_inheritance(cfgIn, order)
        /\ UNCHANGED <<cfgIn, coreVars, regVars, lateVars>>

NextConfig == ResolveConfig

SpecConfig == InitConfig /\ [][NextConfig]_vars

(***************************************************************************)
(* The BlobBackendRegistry in use.                                         *)
(***************************************************************************)
MaxRegOps == 4

InitReg ==
    /\ InitLayers
    /\ InitBackend
    /\ InitNoWrapper
    /\ InitNoConfig
    /\ InitRegistry
    /\ InitLate

GetBackend ==
    \E name \in RegNames, use_cache \in BOOLEAN :
        LET r == get_backend(regConfig, regCache, regNext, name, use_cache) IN
        /\ nRegOps < MaxRegOps
        /\ regCache' = r.cache
        /\ regNext' = r.next
        /\ regLast' = RegCall("get_backend", name, use_cache, NoInstance.config,
                              regSeen[name], {}, r)
        /\ regSeen' = IF use_cache /\ r.status = "ok"
                      THEN [regSeen EXCEPT ![name] = r.value.id]
                      ELSE regSeen
        /\ nRegOps' = nRegOps + 1
        /\ UNCHANGED <<regConfig, regBarrier, coreVars, cfgVars, lateVars>>

Register ==
    \E name \in RegBases, config \in BackendConfigs :
        /\ nRegOps < MaxRegOps
        /\ regConfig' = With(regConfig, name, config)
        /\ regCache' = register_evict(regCache, name)
        /\ regLast' = RegCall("register", name, FALSE, config, 0,
                              DOMAIN regCache \ DOMAIN register_evict(regCache, name),
                              RegResult("ok", NoInstance, <<>>, regNext))
        /\ regSeen' = [n \in RegNames |-> 0]
        /\ regBarrier' = [regBarrier EXCEPT ![name] = regNext]
        /\ nRegOps' = nRegOps + 1
        /\ UNCHANGED <<regNext, coreVars, cfgVars, lateVars>>

ClearCache ==
    /\ nRegOps < MaxRegOps
    /\ regCache' = <<>>
    /\ regLast' = RegCall("clear_cache", <<>>, FALSE, NoInstance.config, 0, DOMAIN regCache,
                          RegResult("ok", NoInstance, <<>>, regNext))
    /\ regSeen' = [n \in RegNames |-> 0]
    /\ regBarrier' = [b \in RegBases |-> regNext]
    /\ nRegOps' = nRegOps + 1
    /\ UNCHANGED <<regConfig, regNext, coreVars, cfgVars, lateVars>>

NextReg == GetBackend \/ Register \/ ClearCache

SpecReg == InitReg /\ [][NextReg]_vars

(***************************************************************************)
(* Bronze writes and Silver normalization.  Silver may hold a partition    *)
(* that an earlier run normalized.                                         *)
(***************************************************************************)
PriorPartition(d) ==
    <<[code |-> {"c1"}, date |-> d, open |-> {1}, high |-> {2}, low |-> {1},
       close |-> {1}, processed_at |-> 0]>>
PriorSilver == {<<>>} \cup {[x \in {d} |-> PriorPartition(d)] : d \in Dates}

InitSilver ==
    /\ silver \in PriorSilver
    /\ gold = <<>>
    /\ lastT = NoCall
    /\ prevT = NoArgs
    /\ nSilver = 0
    /\ nTransform = 0
    /\ InitWriters
    /\ InitBackend
    /\ InitNoWrapper
    /\ InitNoConfig
    /\ InitRegistry
    /\ InitLate

StoreRawResponse ==
    /\ nBronze < MaxBronzeWrites
    /\ \E d \in Dates, data \in RawPartitions :
        /\ bronze' = store_raw_response(bronze, d, data)
        /\ nBronze' = nBronze + 1
        /\ UNCHANGED <<normLast, nNormalize, coreVars, cfgVars, regVars, ingVars, dmVars, seqVars, faultVars, tailVars>>

NormalizeDailyQuotes ==
    /\ nNormalize < MaxNormalize
    /\ \E d \in Dates, force_refresh \in BOOLEAN :
        \E r \in normalize_daily_quotes(bronze, silver, d, force_refresh, nNormalize + 1) :
            /\ silver' = r.silver
            /\ normLast' = [n |-> nNormalize + 1, date |-> d,
                            force_refresh |-> force_refresh,
                            existed |-> d \in DOMAIN silver, pre |-> silver,
                            raw_df |-> IF r.read_bronze THEN read_raw_data(bronze, d)
                                       ELSE <<>>,
                            status |-> r.status, value |-> r.value,
                            read_bronze |-> r.read_bronze]
            /\ nNormalize' = nNormalize + 1
            /\ UNCHANGED <<bronze, nBronze, gold, lastT, prevT, nSilver, nTransform,
                           writerVars, fsVars, cfgVars, regVars, ingVars, dmVars, seqVars, faultVars, tailVars>>

NextSilver == StoreRawResponse \/ NormalizeDailyQuotes

SpecSilver == InitSilver /\ [][NextSilver]_vars

(***************************************************************************)
(* Bronze ingestion.                                                       *)
(***************************************************************************)
DateLists == UNION {[1..n -> DateTimes] : n \in 1..MaxIngestDates}

IngestDailyQuotes ==
    /\ nIngest < MaxIngest
    /\ \E dates \in DateLists, force \in BOOLEAN :
        \E r \in ingest_daily_quotes(bronze, dates, force) :
            /\ bronze' = r.bronze
            /\ ingLast' = [dates |-> dates, force |-> force, pre |-> bronze,
                           fetched |-> r.fetched, written |-> r.written,
                           total_records |-> r.total_records]
            /\ nIngest' = nIngest + 1
            /\ UNCHANGED <<normLast, nBronze, nNormalize, coreVars, cfgVars, regVars, dmVars, seqVars, faultVars, tailVars>>

NextIngest == IngestDailyQuotes

SpecIngest == InitGold /\ [][NextIngest]_vars

(***************************************************************************)
(* FilesystemBackend.delete_many in use.                                   *)
(***************************************************************************)
MaxDeleteKeys == 2
KeyLists == UNION {[1..n -> FsKeys] : n \in 1..MaxDeleteKeys}

FsDeleteMany ==
    /\ nFsOps < MaxFsOps
    /\ \E keys \in KeyLists :
        LET r == fs_delete_many(fsys, keys)
            paths == {get_blob_path(keys[i]) : i \in 1..Len(keys)}
        IN  /\ fsys' = r.fs
            /\ dmLast' = [op |-> "delete_many", keys |-> keys, pre |-> fsys,
                          stored |-> stored, status |-> r.status, value |-> r.value,
                          post |-> r.fs]
            /\ expect' = [x \in DOMAIN expect \ paths |-> expect[x]]
            /\ stored' = stored \ paths
            /\ nFsOps' = nFsOps + 1
            /\ UNCHANGED <<fsLast, wgiven, wprefix, OtherVars, cfgVars, regVars,
                           pipeVars, ingVars, seqVars, faultVars, tailVars>>

NextDeleteMany == FsPut \/ FsDeleteMany

SpecDeleteMany == InitFs /\ [][NextDeleteMany]_vars

(***************************************************************************)
(* Two _update_stock_data calls for different stocks, their steps          *)
(* interleaved.                                                            *)
(***************************************************************************)
NextConcurrent == \E c \in Codes : Writer(c)

SpecConcurrent == InitGold /\ [][NextConcurrent]_vars

(***************************************************************************)
(* transform_daily_prices on a store whose delete can fail.                *)
(***************************************************************************)
TransformDeleteFails ==
    /\ nTransform < MaxTransforms
    /\ list_available_dates # {}
    /\ \E force \in BOOLEAN :
          \E df \in read_daily_prices(SetMin(list_available_dates),
                                      SetMax(list_available_dates)) :
             \E r \in ForEachStockDeleteFails(gold, CodeSeq, df, force) :
                /\ gold' = r.store
                /\ faultLast' = [kind |-> "transform", failed |-> r.failed,
                                 counted |-> r.counted, final |-> r.final,
                                 temps |-> {c \in Codes :
                                              exists(r.store, temp_key(get_gold_key(c)))},
                                 stocks_updated |-> r.stocks_updated,
                                 records_written |-> 0, pre |-> gold, df |-> df,
                                 force |-> force]
    /\ nTransform' = nTransform + 1
    /\ UNCHANGED <<silver, nSilver, lastT, prevT>>
    /\ UNCHANGED <<writerVars, fsVars, cfgVars, regVars, pipeVars, ingVars, dmVars, seqVars, tailVars>>

NextCleanup == SilverWrite \/ TransformDeleteFails

SpecCleanup == InitGold /\ [][NextCleanup]_vars

(***************************************************************************)
(* transform_daily_prices on a store any call of which can fail.           *)
(***************************************************************************)
TransformFaults ==
    /\ nTransform < MaxTransforms
    /\ list_available_dates # {}
    /\ \E force \in BOOLEAN :
          \E df \in read_daily_prices(SetMin(list_available_dates),
                                      SetMax(list_available_dates)) :
             \E r \in ForEachStockFaults(gold, CodeSeq, df, force) :
                /\ gold' = r.store
                /\ faultLast' = [kind |-> "transform", failed |-> r.failed,
                                 counted |-> r.counted, final |-> {},
                                 temps |-> {c \in Codes :
                                              exists(r.store, temp_key(get_gold_key(c)))},
                                 stocks_updated |-> r.stocks_updated,
                                 records_written |-> r.records_written,
                                 pre |-> gold, df |-> df, force |-> force]
    /\ nTransform' = nTransform + 1
    /\ UNCHANGED <<silver, nSilver, lastT, prevT>>
    /\ UNCHANGED <<writerVars, fsVars, cfgVars, regVars, pipeVars, ingVars, dmVars, seqVars, tailVars>>

NextFaults == SilverWrite \/ TransformFaults

SpecFaults == InitGold /\ [][NextFaults]_vars

(***************************************************************************)
(* Listing: MinIOBackend.list_blobs, BlobStorage.list and list_prefixes    *)
(* over a FilesystemBackend and over a MinIO bucket holding the same       *)
(* blobs.                                                                  *)
(***************************************************************************)
MaxListPuts == 3
ListKeys == {<<"a">>, <<"b">>, <<"d", Sep, "a">>, <<"e">>}
ListPrefixArgs == {None, <<"d", Sep>>}
Backends == {"filesystem", "minio"}

\* Minio.list_objects(bucket_name, prefix, recursive, start_after): the
\* object names with the prefix that come after start_after, in name order;
\* when not recursive, the names with a "/" after the prefix collapse into
\* one directory entry per first part.
minio_entry(k, pfx, recursive) ==
    LET rest == DropFirst(k, Len(pfx)) IN
    IF ~recursive /\ Contains(rest, Sep)
    THEN [object_name |-> pfx \o FirstPart(rest) \o <<Sep>>, is_dir |-> TRUE]
    ELSE [object_name |-> k, is_dir |-> FALSE]

list_objects(objs, prefix, recursive, start_after) ==
    LET names == {k \in objs : /\ StartsWith(k, prefix)
                               /\ start_after # None => PathLess(start_after, k)}
        entries == {minio_entry(k, prefix, recursive) : k \in names}
        order == SortPaths({x.object_name : x \in entries})
    IN  [i \in 1..Len(order) |-> CHOOSE x \in entries : x.object_name = order[i]]

\* The loop "for obj in objects" of MinIOBackend.list_blobs, from the i-th
\* object on.
RECURSIVE minio_loop(_, _, _, _, _)
minio_loop(objects, i, max_results, blobs, prefixes) ==
    IF i > Len(objects) THEN ListResult(blobs, prefixes, FALSE, None)
    ELSE IF i > max_results
    THEN ListResult(blobs, prefixes, TRUE,
                    IF blobs # <<>> THEN blobs[Len(blobs)].key ELSE None)
    ELSE IF objects[i].is_dir
    THEN minio_loop(objects, i + 1, max_results, blobs,
                    prefixes \cup {objects[i].object_name})
    ELSE minio_loop(objects, i + 1, max_results,
                    Append(blobs, [key |-> objects[i].object_name]), prefixes)

\* MinIOBackend.list_blobs, the instance prefix being empty.
minio_list_blobs(objs, prefix, delimiter, max_results, marker) ==
    minio_loop(list_objects(objs, IF Given(prefix) THEN prefix ELSE <<>>,
                            delimiter = None,
                            IF Given(marker) THEN marker ELSE None),
               1, max_results, <<>>, {})

\* self._backend.list_blobs(prefix, delimiter, max_results, marker)
backend_list_blobs(backend, f, objs, prefix, delimiter, max_results, marker) ==
    IF backend = "filesystem"
    THEN fs_list_blobs(f, prefix, delimiter, max_results, marker).value
    ELSE minio_list_blobs(objs, prefix, delimiter, max_results, marker)

BlobKeys(blobs) == [i \in 1..Len(blobs) |-> blobs[i].key]

\* BlobStorage.list: the keys the generator yields, page after page.  The
\* store does not change, so a marker that comes back a second time brings
\* the same pages again, for ever.
RECURSIVE blob_list(_, _, _, _, _, _, _, _, _)
blob_list(backend, f, objs, prefix, delimiter, max_results, marker, seen, yielded) ==
    IF marker \in seen THEN [yielded |-> yielded, terminates |-> FALSE]
    ELSE LET result == backend_list_blobs(backend, f, objs, prefix, delimiter,
                                          max_results, marker)
             out == yielded \o BlobKeys(result.blobs)
         IN  IF ~result.is_truncated THEN [yielded |-> out, terminates |-> TRUE]
             ELSE blob_list(backend, f, objs, prefix, delimiter, max_results,
                            result.next_marker, seen \cup {marker}, out)

\* BlobStorage.list_prefixes
list_prefixes(backend, f, objs, prefix, delimiter) ==
    backend_list_blobs(backend, f, objs, prefix, delimiter, 1, None).prefixes

ListCall(op, backend, prefix, delimiter, max_results, marker, value) ==
    [op |-> op, backend |-> backend, prefix |-> prefix, delimiter |-> delimiter,
     max_results |-> max_results, marker |-> marker, blobs |-> bucket, value |-> value]

\* The same blob is put in the filesystem backend and in the bucket.
ListPut ==
    /\ nFsOps < MaxListPuts
    /\ \E key \in ListKeys :
          /\ fsys' = fs_put(fsys, key, <<1>>).fs
          /\ bucket' = bucket \cup {key}
    /\ nFsOps' = nFsOps + 1
    /\ UNCHANGED <<listLast, fsLast, expect, stored, wgiven, wprefix, OtherVars, cfgVars,
                   regVars, pipeVars, ingVars, dmVars, seqVars, faultVars, stockVars>>

ListBlobs ==
    \E backend \in Backends, prefix \in ListPrefixArgs, delimiter \in Delimiters,
       max_results \in 1..MaxResults, marker \in ListKeys \cup {None} :
        /\ listLast' = ListCall("list_blobs", backend, prefix, delimiter, max_results,
                                marker,
                                backend_list_blobs(backend, fsys, bucket, prefix,
                                                   delimiter, max_results, marker))
        /\ UNCHANGED <<bucket, fsVars, OtherVars, cfgVars, regVars, pipeVars, ingVars,
                       dmVars, seqVars, faultVars, stockVars>>

BlobListPrefixes ==
    \E backend \in Backends, prefix \in ListPrefixArgs, delimiter \in {<<Sep>>} :
        /\ listLast' = ListCall("list_prefixes", backend, prefix, delimiter, 1, None,
                                list_prefixes(backend, fsys, bucket, prefix, delimiter))
        /\ UNCHANGED <<bucket, fsVars, OtherVars, cfgVars, regVars, pipeVars, ingVars,
                       dmVars, seqVars, faultVars, stockVars>>

BlobList ==
    \E backend \in Backends, prefix \in ListPrefixArgs, delimiter \in Delimiters,
       max_results \in 1..MaxResults :
        /\ listLast' = ListCall("list", backend, prefix, delimiter, max_results, None,
                                blob_list(backend, fsys, bucket, prefix, delimiter,
                                          max_results, None, {}, <<>>))
        /\ UNCHANGED <<bucket, fsVars, OtherVars, cfgVars, regVars, pipeVars, ingVars,
                       dmVars, seqVars, faultVars, stockVars>>

NextList == ListPut \/ ListBlobs \/ BlobListPrefixes \/ BlobList

SpecList == InitFs /\ [][NextList]_vars

(***************************************************************************)
(* The Stock facade: the latest-listed-info loader and _resolve_code.  A   *)
(* code is the sequence of its characters; a snapshot is the set of the    *)
(* values of its Code column, the empty set being the empty frame.         *)
(***************************************************************************)
MaxStockWrites == 2
Space == " "
Digits == {"0", "1", "3", "5", "9"}
Base == <<"1", "3", "0", "1">>
Other == <<"9", "9", "9", "9", "0">>
ListedCodes == {Base, Base \o <<"0">>, Base \o <<"1">>, Base \o <<"5">>, Other}
GoldCodes == {Base, Base \o <<"0">>, Base \o <<"5">>}
CodeInputs == {Base, Base \o <<"0">>, Base \o <<"5">>, <<Space>> \o Base, Base \o <<Space>>,
               <<"1", "3", "0">>, <<"1", "3", "0", "x">>, Base \o <<"0", "0">>, <<>>}

DigitRank(c) ==
    CASE c = "0" -> 0 [] c = "1" -> 1 [] c = "3" -> 3 [] c = "5" -> 5 [] OTHER -> 9

\* Order of str: character by character, a proper prefix first.
RECURSIVE StrLess(_, _)
StrLess(x, y) ==
    IF x = <<>> THEN y # <<>>
    ELSE IF y = <<>> THEN FALSE
    ELSE IF Head(x) = Head(y) THEN StrLess(Tail(x), Tail(y))
    ELSE DigitRank(Head(x)) < DigitRank(Head(y))

\* sorted(set(...))
RECURSIVE SortStrs(_)
SortStrs(S) ==
    IF S = {} THEN <<>>
    ELSE LET m == CHOOSE x \in S : \A y \in S \ {x} : StrLess(x, y)
         IN  <<m>> \o SortStrs(S \ {m})

\* str.strip()
RECURSIVE strip(_)
strip(s) ==
    IF s # <<>> /\ Head(s) = Space THEN strip(Tail(s))
    ELSE IF s # <<>> /\ s[Len(s)] = Space THEN strip(SubSeq(s, 1, Len(s) - 1))
    ELSE s

isdigit(s) == s # <<>> /\ \A i \in 1..Len(s) : s[i] \in Digits
endswith0(s) == s # <<>> /\ s[Len(s)] = "0"

\* _load_latest_listed_info: the frame returned and the cache entry left.
load_latest_listed_info(partitions, cached) ==
    LET dates == DOMAIN partitions
        latest == SetMax(dates)
    IN  IF dates = {} THEN [df |-> {}, cache |-> cached]
        ELSE IF cached # {} /\ Value(cached).date = latest
        THEN [df |-> Value(cached).df, cache |-> cached]
        ELSE [df |-> partitions[latest],
              cache |-> {[date |-> latest, df |-> partitions[latest]]}]

\* Mutant of pick_candidate: the lexicographic minimum, whatever it ends in.
pick_candidate_minimum(unique_candidates) == unique_candidates[1]

\* The end of _resolve_code: the first candidate that ends in "0", else the
\* first candidate.
pick_candidate(unique_candidates) ==
    IF \E i \in 1..Len(unique_candidates) : endswith0(unique_candidates[i])
    THEN unique_candidates[CHOOSE i \in 1..Len(unique_candidates) :
                              /\ endswith0(unique_candidates[i])
                              /\ \A j \in 1..i - 1 : ~endswith0(unique_candidates[j])]
    ELSE unique_candidates[1]

\* _resolve_code(code, bronze, gold), table being what the loader returned
\* and stocks what gold.list_available_stocks() returned.
resolve_code(code, table, stocks) ==
    LET cleaned == strip(code)
        from_table == {c \in table : StartsWith(c, cleaned)}
        candidates == IF from_table # {} THEN from_table
                      ELSE {c \in stocks : StartsWith(c, cleaned)}
    IN  IF ~isdigit(cleaned) THEN [error |-> "ValueError", value |-> <<>>]
        ELSE IF Len(cleaned) = 5 THEN [error |-> "none", value |-> cleaned]
        ELSE IF Len(cleaned) # 4 THEN [error |-> "ValueError", value |-> <<>>]
        ELSE IF cleaned \in table THEN [error |-> "none", value |-> cleaned]
        ELSE IF candidates = {} THEN [error |-> "none", value |-> cleaned \o <<"0">>]
        ELSE [error |-> "none", value |-> pick_candidate(SortStrs(candidates))]

StockVarsElse == <<coreVars, cfgVars, regVars, pipeVars, ingVars, dmVars, seqVars, faultVars,
                   listVars>>

\* bronze.store_raw_response("listed_info", data, date)
StoreListedInfo ==
    /\ nStockOps < MaxStockWrites
    /\ \E date \in Dates, codes \in SUBSET ListedCodes :
          listed' = [d \in DOMAIN listed \cup {date} |->
                        IF d = date THEN codes ELSE listed[d]]
    /\ nStockOps' = nStockOps + 1
    /\ UNCHANGED <<listedCache, goldStocks, prices, stockLast, StockVarsElse>>

\* A Gold file is written for a stock.
GoldStockAdded ==
    /\ nStockOps < MaxStockWrites
    /\ \E code \in GoldCodes : goldStocks' = goldStocks \cup {code}
    /\ nStockOps' = nStockOps + 1
    /\ UNCHANGED <<listed, listedCache, prices, stockLast, StockVarsElse>>

\* Stock._load_latest_listed_info(bronze)
LoadLatestListedInfo ==
    LET r == load_latest_listed_info(listed, listedCache) IN
    /\ listedCache' = r.cache
    /\ stockLast' = [op |-> "load", listed |-> listed, cached |-> listedCache,
                     df |-> r.df]
    /\ UNCHANGED <<listed, goldStocks, prices, nStockOps, StockVarsElse>>

\* Stock(code, bronze, gold): _resolve_code loads the snapshot first.
ResolveCode ==
    \E code \in CodeInputs :
        LET cleaned == strip(code)
            loads == isdigit(cleaned) /\ Len(cleaned) = 4
            r == load_latest_listed_info(listed, listedCache)
            table == IF loads THEN r.df ELSE {}
        IN  /\ listedCache' = IF loads THEN r.cache ELSE listedCache
            /\ stockLast' = [op |-> "resolve", code |-> code, table |-> table,
                             stocks |-> goldStocks,
                             result |-> resolve_code(code, table, goldStocks)]
            /\ UNCHANGED <<listed, goldStocks, prices, nStockOps, StockVarsElse>>

NextStock == StoreListedInfo \/ GoldStockAdded \/ LoadLatestListedInfo \/ ResolveCode

SpecStock == InitFs /\ [][NextStock]_vars

(***************************************************************************)
(* Stock.get_price_history and _apply_adjustments.  A cell is Null or one  *)
(* number; the values are chosen so that every quotient is whole.          *)
(***************************************************************************)
Inf == 0 - 1
NaN == 0 - 2

PriceRow == [open : {{3}}, close : {Null, {1}}, volume : {Null, {0}, {4}},
             turnover_value : {{2}}, adjustment_factor : {Null, {0}, {1}, {2}},
             adj_close : {{7}}]
AdjustModes == {"none", "add", "replace"}

\* Float64 product and quotient of a cell and a number; null stays null,
\* x / 0 is inf and 0 / 0 is nan.
Mul(cell, x) == IF cell = Null THEN Null ELSE {Value(cell) * x}
TrueDiv(cell, x) ==
    IF cell = Null THEN Null
    ELSE IF x # 0 THEN {Value(cell) \div x}
    ELSE IF Value(cell) = 0 THEN {NaN} ELSE {Inf}

\* pl.col("adjustment_factor").cast(pl.Float64).fill_null(1.0)
fill_null_factor(row) ==
    IF row.adjustment_factor = Null THEN 1 ELSE Value(row.adjustment_factor)

\* Mutant of safe_divisor: the factor itself divides.
safe_divisor_raw(factor) == factor

\* pl.when(factor == 0).then(1.0).otherwise(factor)
safe_divisor(factor) == IF factor = 0 THEN 1 ELSE factor

\* _apply_adjustments on one row (every row has an adjustment_factor
\* column).
apply_adjustments(row, mode, adjust_volume, adjust_turnover) ==
    LET factor == fill_null_factor(row)
        open == Mul(row.open, factor)
        close == Mul(row.close, factor)
        volume == TrueDiv(row.volume, safe_divisor(factor))
        turnover_value == Mul(row.turnover_value, factor)
    IN  IF mode = "replace"
        THEN [row EXCEPT !.open = open, !.close = close,
                         !.volume = IF adjust_volume THEN volume ELSE @,
                         !.turnover_value = IF adjust_turnover THEN turnover_value ELSE @]
        ELSE [adj_open |-> open, adj_close |-> close]
             @@ (IF adjust_volume THEN [adj_volume |-> volume] ELSE <<>>)
             @@ (IF adjust_turnover THEN [adj_turnover_value |-> turnover_value] ELSE <<>>)
             @@ row

\* get_price_history(adjust=..., adjust_volume=..., adjust_turnover=...)
\* with no date bounds and no column selection: the rows by date.
get_price_history(rows, adjust, adjust_volume, adjust_turnover) ==
    IF adjust = "none" THEN rows
    ELSE [d \in DOMAIN rows |->
             apply_adjustments(rows[d], adjust, adjust_volume, adjust_turnover)]

\* The Gold file of the stock gets the row of a date.
GoldPriceWritten ==
    /\ nStockOps < MaxStockWrites
    /\ \E date \in Dates, row \in PriceRow :
          prices' = [d \in DOMAIN prices \cup {date} |->
                        IF d = date THEN row ELSE prices[d]]
    /\ nStockOps' = nStockOps + 1
    /\ UNCHANGED <<listed, listedCache, goldStocks, stockLast, StockVarsElse>>

GetPriceHistory ==
    \E adjust \in AdjustModes, adjust_volume \in BOOLEAN, adjust_turnover \in BOOLEAN :
        /\ stockLast' = [op |-> "get_price_history", adjust |-> adjust,
                         adjust_volume |-> adjust_volume,
                         adjust_turnover |-> adjust_turnover, stored |-> prices,
                         df |-> get_price_history(prices, adjust, adjust_volume,
                                                  adjust_turnover)]
        /\ UNCHANGED <<listed, listedCache, goldStocks, prices, nStockOps, StockVarsElse>>

NextAdjust == GoldPriceWritten \/ GetPriceHistory

SpecAdjust == InitFs /\ [][NextAdjust]_vars

(***************************************************************************)
(* Properties of the Gold merge (checked under SpecGold).                  *)
(***************************************************************************)
RowsAt(rows, d) == SelectSeq(rows, LAMBDA r : r.date = d)
LastOcc(rows, d) == RowsAt(rows, d)[Len(RowsAt(rows, d))]
StockRows(df, c) == SelectSeq(df, LAMBDA r : r.code = c)
GoldRows(st, c) ==
    IF exists(st, get_gold_key(c)) THEN read_parquet(get(st, get_gold_key(c))) ELSE <<>>
StrictlyAscending(rows) == \A i \in 1..Len(rows) - 1 : rows[i].date < rows[i + 1].date

\* C2: every Gold file daily_prices/{code}/data.parquet holds at most one row
\* per date, sorted by date ascending, after any sequence of transforms.
C2_GoldUniqueSorted ==
    \A c \in Codes : StrictlyAscending(GoldRows(gold, c))

C4_MergeKeepsAndReplaces ==
    lastT.kind = "transform" =>
        \A c \in Codes :
            LET new == StockRows(lastT.df, c)
                old == GoldRows(lastT.pre, c)
                now == GoldRows(gold, c)
            IN  (exists(lastT.pre, get_gold_key(c)) /\ new # <<>>) =>
                    /\ ~lastT.force =>
                          /\ \A d \in DateSet(old) : RowsAt(now, d) = RowsAt(old, d)
                          /\ \A d \in DateSet(now) \ DateSet(old) :
                                RowsAt(now, d) = <<LastOcc(new, d)>>
                    /\ lastT.force =>
                          \A d \in DateSet(old) \cap DateSet(new) :
                             RowsAt(now, d) = <<LastOcc(new, d)>>
                    /\ \A d \in DateSet(old) \ DateSet(new) : RowsAt(now, d) = RowsAt(old, d)

\* C5: a transform with force=false run a second time over the same range,
\* Silver unchanged, puts no Gold key and leaves every Gold file as it was.
C5_SecondRunIsNoOp ==
    (/\ lastT.kind = "transform" /\ ~lastT.force
     /\ prevT.kind = "transform" /\ ~prevT.force
     /\ prevT.start = lastT.start /\ prevT.end = lastT.end)
        => (lastT.puts = {} /\ gold = lastT.pre)

\* A second force=false run over a range whose rows the first run had to store.
C5_Witness ==
    /\ lastT.kind = "transform" /\ ~lastT.force
    /\ prevT.kind = "transform" /\ ~prevT.force
    /\ prevT.start = lastT.start /\ prevT.end = lastT.end
    /\ lastT.df # <<>>
    /\ lastT.puts = {}
    /\ \A i \in 1..Len(lastT.df) : lastT.df[i] \in Range(GoldRows(gold, lastT.df[i].code))

(***************************************************************************)
(* Properties of the atomic-write protocol (checked under SpecAtomic).     *)
(***************************************************************************)
\* C1: while _write_atomic rewrites a Gold file, a reader that gets the final
\* key obtains the complete previous contents or the complete new contents,
\* never a missing, empty or partially written object.
C1_ReaderSeesOldOrNew ==
    rd.rewriting => (rd.found /\ rd.bytes \in {rd.old, rd.new})


(***************************************************************************)
(* Properties of the FilesystemBackend (checked under SpecFs).             *)
(***************************************************************************)

\* C6: after put(k, b) completes, get(k) returns exactly b (empty bytes
\* included), and keeps returning b until the next put or delete of k; a
\* put on a key that holds a value overwrites it.  expect holds, for every
\* key, the bytes of its last put while no put, delete or copy of that key
\* has followed.
C6_GetReturnsLastPut ==
    \A path \in DOMAIN expect :
        /\ fs_get(fsys, path).status = "ok"
        /\ fs_get(fsys, path).value = Blob(expect[path])

\* C7: after put(k, _) exists(k) is true; after delete(k) exists(k) is
\* false and get(k) raises NotFound; delete of an absent key (one not
\* written since it was last deleted, or never written) raises NotFound and
\* leaves the store unchanged.
C7_ExistsNotFoundDuality ==
    /\ (fsLast.op = "put" /\ fsLast.status = "ok") => fs_exists(fsys, fsLast.key)
    /\ (fsLast.op = "delete" /\ fsLast.status = "ok") =>
            /\ ~fs_exists(fsys, fsLast.key)
            /\ fs_get(fsys, fsLast.key).status = "NotFound"
    /\ (fsLast.op = "delete" /\ fsLast.absent) =>
            /\ fsLast.status = "NotFound"
            /\ fsys = fsLast.pre


(***************************************************************************)
(* Properties of the PrefixedBlobBackend (checked under SpecPrefix).  The  *)
(* normalized prefix and the stripping of it are stated here on their own. *)
(***************************************************************************)
Normalized(p) ==
    IF p = <<>> THEN <<>>
    ELSE SubSeq(p, 1, CHOOSE n \in 0..Len(p) :
                        /\ \A i \in n + 1..Len(p) : p[i] = Sep
                        /\ (n > 0 => p[n] # Sep)) \o <<Sep>>
Stripped(p, key) ==
    IF StartsWith(key, Normalized(p)) THEN DropFirst(key, Len(Normalized(p))) ELSE key

KeyOps == {"put", "get", "delete", "exists", "get_metadata", "get_size", "copy"}

\* The same operation on the delegate, at the key Normalized(p) + k.
OnDelegate(c, p) ==
    LET k == Normalized(p) \o c.key
        k2 == Normalized(p) \o c.key2
    IN  CASE c.op = "put" -> fs_put(c.pre, k, c.data)
          [] c.op = "get" -> fs_get(c.pre, k)
          [] c.op = "delete" -> fs_delete(c.pre, k)
          [] c.op = "exists" -> Ok(c.pre, fs_exists(c.pre, k))
          [] c.op = "get_metadata" -> fs_get_metadata(c.pre, k)
          [] c.op = "get_size" -> fs_get_size(c.pre, k)
          [] c.op = "copy" -> fs_copy(c.pre, k, k2)

\* C8, as stated: every key operation of PrefixedBlobBackend(D, p) has
\* exactly the effect and the result of the same operation on D at
\* Normalized(p) + k.
C8_SameEffectAndResult ==
    fsLast.op \in KeyOps =>
        /\ fsys = OnDelegate(fsLast, wgiven).fs
        /\ fsLast.status = OnDelegate(fsLast, wgiven).status
        /\ fsLast.value = OnDelegate(fsLast, wgiven).value

\* C8, amended: every key operation of PrefixedBlobBackend(D, p) has the
\* effect and the result of the same operation on D at Normalized(p) + k,
\* except that the metadata get_metadata returns carries the delegate's key
\* with Normalized(p) removed; with the empty prefix nothing differs.
C8_SameButMetadataKey ==
    fsLast.op \in KeyOps =>
        LET d == OnDelegate(fsLast, wgiven) IN
        /\ fsys = d.fs
        /\ fsLast.status = d.status
        /\ fsLast.value =
              IF fsLast.op = "get_metadata" /\ d.status = "ok"
              THEN [d.value EXCEPT !.key = Stripped(wgiven, d.value.key)]
              ELSE d.value
        /\ wgiven = <<>> => fsLast.value = d.value

C8_Witness ==
    /\ fsLast.op = "get_metadata"
    /\ fsLast.status = "ok"
    /\ wgiven = <<"p", Sep, Sep>>
    /\ fsLast.value.key = fsLast.key

\* What the delegate's filesystem holds as blobs: the files that are not
\* sidecars.
DelegateBlobs(f) == {x \in DOMAIN f.files : ~f.files[x].json}
ListedKeys(c) == {c.value.blobs[i].key : i \in 1..Len(c.value.blobs)}
SubPrefix(c) == IF Given(c.prefix) THEN c.prefix ELSE <<>>
WholeListing(c) ==
    /\ c.op = "list_blobs"
    /\ c.marker = None
    /\ c.delimiter = None
    /\ ~c.value.is_truncated

\* C9, as stated: listing through PrefixedBlobBackend(D, p) with
\* sub-prefix q returns exactly the keys of D that start with
\* Normalized(p) + q, each with Normalized(p) removed; keys of D outside the
\* prefix are never returned, and no returned key or prefix starts with p.
C9_ExactlyKeysUnderPrefix ==
    WholeListing(fsLast) =>
        /\ ListedKeys(fsLast) =
              {Stripped(wgiven, x) :
                 x \in {y \in DelegateBlobs(fsLast.pre) :
                          StartsWith(y, Normalized(wgiven) \o SubPrefix(fsLast))}}
        /\ wgiven # <<>> =>
              \A r \in ListedKeys(fsLast) \cup fsLast.value.prefixes : ~StartsWith(r, wgiven)

\* C9, amended: a listing through PrefixedBlobBackend(D, p) with
\* sub-prefix q returns the blobs and prefixes that D's own listing of
\* Normalized(p) + q returns, in the same order, each with Normalized(p)
\* removed; every returned key r is such that Normalized(p) + r is a blob
\* of D that starts with Normalized(p) + q, so keys of D outside the prefix
\* are never returned.
C9_DelegateListingStripped ==
    (fsLast.op = "list_blobs" /\ fsLast.marker = None) =>
        LET np == Normalized(wgiven)
            full == IF Given(fsLast.prefix) THEN np \o fsLast.prefix
                    ELSE IF np # <<>> THEN np ELSE None
            d == fs_list_blobs(fsLast.pre, full, fsLast.delimiter, fsLast.max_results,
                               None).value
        IN  /\ Len(fsLast.value.blobs) = Len(d.blobs)
            /\ \A i \in 1..Len(d.blobs) :
                  /\ fsLast.value.blobs[i].key = Stripped(wgiven, d.blobs[i].key)
                  /\ np \o fsLast.value.blobs[i].key \in DelegateBlobs(fsLast.pre)
                  /\ StartsWith(np \o fsLast.value.blobs[i].key, np \o SubPrefix(fsLast))
            /\ fsLast.value.prefixes = {Stripped(wgiven, x) : x \in d.prefixes}
            /\ fsLast.value.is_truncated = d.is_truncated

C9_Witness ==
    /\ fsLast.op = "list_blobs"
    /\ fsLast.marker = None
    /\ wgiven = <<"p">>
    /\ fsLast.prefix = <<"p">>
    /\ ListedKeys(fsLast) = {<<"p", Sep, "a">>}
    /\ <<"b">> \in DelegateBlobs(fsLast.pre)

\* C10: a marker passed to PrefixedBlobBackend.list_blobs is given to the
\* delegate with the prefix added, and the next_marker returned to the
\* caller is the delegate's next_marker with the prefix stripped.
C10_MarkersTranslated ==
    fsLast.op = "list_blobs" =>
        /\ fsLast.marker # None => fsLast.dmarker = Normalized(wgiven) \o fsLast.marker
        /\ fsLast.dnext # None =>
              fsLast.value.next_marker = Stripped(wgiven, fsLast.dnext)
        /\ fsLast.dnext = None => fsLast.value.next_marker = None


(***************************************************************************)
(* Properties of resolve_config_inheritance (checked under SpecConfig).    *)
(***************************************************************************)
HasParent(c, n) == Inherits \in DOMAIN c[n]
ParentOf(c, n) == c[n][Inherits]
MissingParent(c) == \E n \in DOMAIN c : HasParent(c, n) /\ ParentOf(c, n) \notin DOMAIN c

\* The i-th ancestor of n, where the chain of parents reaches that far.
RECURSIVE Reaches(_, _, _, _)
Reaches(c, n, m, steps) ==
    /\ steps > 0
    /\ HasParent(c, n)
    /\ ParentOf(c, n) \in DOMAIN c
    /\ (ParentOf(c, n) = m \/ Reaches(c, ParentOf(c, n), m, steps - 1))
HasCycle(c) == \E n \in DOMAIN c : Reaches(c, n, n, Cardinality(DOMAIN c))

\* C11: for every entry child that inherits from parent and every key k,
\* the resolved child has the child's own value for k if the child defines
\* k, and otherwise what the resolved parent has for k (so along chains of
\* any depth); an entry without parent resolves to itself; "__inherits__"
\* appears in no resolved entry.
C11_InheritanceSound ==
    cfgOut.error = "none" =>
        /\ DOMAIN cfgOut.value = DOMAIN cfgIn
        /\ \A child \in DOMAIN cfgIn :
              LET own == cfgIn[child]
                  res == cfgOut.value[child]
              IN  /\ Inherits \notin DOMAIN res
                  /\ ~HasParent(cfgIn, child) => res = own
                  /\ HasParent(cfgIn, child) =>
                        LET par == cfgOut.value[ParentOf(cfgIn, child)] IN
                        \A k \in CfgKeys :
                            IF k \in DOMAIN own THEN k \in DOMAIN res /\ res[k] = own[k]
                            ELSE /\ k \in DOMAIN res <=> k \in DOMAIN par
                                 /\ k \in DOMAIN par => res[k] = par[k]

\* A chain c -> b -> a: c takes k2 from a through b and overrides a's k1.
C11_Witness ==
    /\ cfgOut.error = "none"
    /\ DOMAIN cfgIn = CfgNames
    /\ cfgIn["c"] = [k \in {Inherits, "k1"} |-> IF k = Inherits THEN "b" ELSE "v2"]
    /\ cfgIn["b"] = [k \in {Inherits} |-> "a"]
    /\ cfgIn["a"] = [k \in {"k1", "k2"} |-> "v1"]
    /\ cfgOut.value["c"] = [k \in {"k1", "k2"} |-> IF k = "k1" THEN "v2" ELSE "v1"]

\* C12: resolve_config_inheritance raises ConfigError if the inheritance
\* graph has a cycle (an entry that inherits from itself included) or an
\* entry names a parent that is not in the configuration, and raises for no
\* other configuration, whatever the order of the entries.
C12_RaisesExactlyOnCycleOrMissing ==
    cfgOut # NoOutcome =>
        (cfgOut.error = "ConfigError" <=> (HasCycle(cfgIn) \/ MissingParent(cfgIn)))

\* A cycle a -> b -> a beside a sound entry c is refused.
C12_Witness ==
    /\ cfgOut.error = "ConfigError"
    /\ DOMAIN cfgIn = CfgNames
    /\ HasCycle(cfgIn)
    /\ ~MissingParent(cfgIn)
    /\ ~HasParent(cfgIn, "c")


(***************************************************************************)
(* Properties of the BlobBackendRegistry (checked under SpecReg).          *)
(***************************************************************************)
GotBackend == regLast.op = "get_backend" /\ regLast.status = "ok"
BaseOf(name) == parse_name(name).base_name

C14_NormalizeIdempotent ==
    (normLast.n > 0 /\ normLast.existed /\ ~normLast.force_refresh) =>
        /\ normLast.status = "ok"
        /\ normLast.value = normLast.date
        /\ ~normLast.read_bronze
        /\ silver = normLast.pre

\* normalize(d); normalize(d): the second call finds the partition the first
\* one wrote from a Bronze partition.
C14_Witness ==
    /\ normLast.n = 2
    /\ normLast.existed
    /\ ~normLast.force_refresh
    /\ normLast.date \in DOMAIN bronze
    /\ silver[normLast.date][1].processed_at = 1

RawInvalid(r) ==
    /\ r.Code # Null
    /\ r.Close # Null
    /\ Value(r.Close) > 0
    /\ r.High # Null
    /\ Value(r.High) < Value(r.Low)

\* C15: a normalize_daily_quotes call whose validation fails raises and
\* leaves Silver as it was: no partition appears and an existing one keeps
\* its contents; a Bronze row with High below Low (code and close present)
\* makes the validation fail with the data-quality ValueError.
C15_FailedValidationWritesNothing ==
    /\ normLast.status \in {"ValueError", "TypeError"} => silver = normLast.pre
    /\ (\E i \in 1..Len(normLast.raw_df) : RawInvalid(normLast.raw_df[i])) =>
           normLast.status = "ValueError"

\* A forced normalize of an existing partition from a Bronze partition with
\* High below Low.
C15_Witness ==
    /\ normLast.existed
    /\ normLast.force_refresh
    /\ normLast.status = "ValueError"
    /\ \E i \in 1..Len(normLast.raw_df) : RawInvalid(normLast.raw_df[i])
    /\ silver[normLast.date] = PriorPartition(normLast.date)

Max2(a, b) == IF a >= b THEN a ELSE b
Min2(a, b) == IF a <= b THEN a ELSE b

RowValid(r) ==
    /\ r.code # Null
    /\ r.close # Null /\ r.open # Null /\ r.high # Null /\ r.low # Null
    /\ Value(r.close) > 0
    /\ Value(r.high) >= Max2(Value(r.open), Max2(Value(r.close), Value(r.low)))
    /\ Value(r.low) <= Min2(Value(r.open), Min2(Value(r.close), Value(r.high)))

\* C16: every row of every Silver partition that normalize_daily_quotes
\* wrote has high >= max(open, close, low), low <= min(open, close, high),
\* close > 0 and a code that is not null.
C16_WrittenRowsValid ==
    \A d \in DOMAIN silver : \A i \in 1..Len(silver[d]) : RowValid(silver[d][i])

(***************************************************************************)
(* Properties of Bronze ingestion (checked under SpecIngest).              *)
(***************************************************************************)
\* C17: an ingest_daily_quotes call with force=false makes no API fetch and
\* no write for a date whose Bronze partition existed before the call, and
\* leaves the bytes of that partition as they were; a partition that
\* existed is overwritten only by a call with force=true.
C17_NoForceIsNoOp ==
    ~ingLast.force =>
        \A i \in 1..Len(ingLast.dates) :
            LET day == strftime(ingLast.dates[i]) IN
            day \in DOMAIN ingLast.pre =>
                /\ day \notin Range(ingLast.fetched)
                /\ day \notin Range(ingLast.written)
                /\ bronze[day] = ingLast.pre[day]

(***************************************************************************)
(* Properties of delete_many (checked under SpecDeleteMany).               *)
(***************************************************************************)
\* C18: delete_many(keys) does not raise and returns a flag for every
\* requested key: true exactly for the keys that were stored, which are
\* deleted, and false for the keys that were absent; the stored keys that
\* are not in the list keep their blobs.
C18_DeleteManyFlags ==
    dmLast.op = "delete_many" =>
        LET requested == Range(dmLast.keys)
            paths == {get_blob_path(k) : k \in requested}
        IN  /\ dmLast.status = "ok"
            /\ DOMAIN dmLast.value = requested
            /\ \A k \in requested :
                  /\ dmLast.value[k] <=> get_blob_path(k) \in dmLast.stored
                  /\ ~IsFile(dmLast.post, get_blob_path(k))
            /\ \A p \in dmLast.stored \ paths :
                  /\ IsFile(dmLast.post, p)
                  /\ dmLast.post.files[p] = dmLast.pre.files[p]

(***************************************************************************)
(* Properties of concurrent Gold writers (checked under SpecConcurrent).   *)
(***************************************************************************)
InProgress(c) == wpc[c] \in {"write_temp", "put_final", "write_final", "delete_temp"}

\* C19: however the steps of two _update_stock_data calls for different
\* stocks interleave, each call finds its temp key at every step that reads
\* or deletes it, and once a call is complete its temp key is gone and its
\* Gold file holds what it holds when the calls run one after the other.
C19_DisjointWritersSafe ==
    \A c \in Codes :
        LET k == get_gold_key(c) IN
        /\ InProgress(c) => exists(gold, temp_key(k))
        /\ wpc[c] \in {"write_final", "delete_temp"} => exists(gold, k)
        /\ wpc[c] = "idle" =>
              /\ ~exists(gold, temp_key(k))
              /\ exists(gold, k) <=> exists(seqGold, k)
              /\ exists(gold, k) => get(gold, k) = get(seqGold, k)

\* Two calls for different stocks overlapped and both are complete.
C19_Witness ==
    /\ overlapped
    /\ \A c \in Codes : wpc[c] = "idle" /\ exists(gold, get_gold_key(c))

(***************************************************************************)
(* Properties of the temp-key cleanup (checked under SpecCleanup).         *)
(***************************************************************************)
\* C20: when the delete of the temp key fails after the final key was
\* written, the update of that stock still completes: its final key holds
\* the new contents and the stock is counted as updated.
C20_CleanupFailureTolerated ==
    \A c \in faultLast.failed :
        /\ c \in faultLast.final
        /\ c \in faultLast.counted

(***************************************************************************)
(* Existence on the FilesystemBackend (checked under SpecFs).              *)
(***************************************************************************)
\* C29: a key that no put stored, or that was deleted since, does not
\* exist: exists is false for it, and get and delete raise NotFound,
\* whatever was done to other keys.
C29_OnlyStoredKeysExist ==
    \A key \in FsKeys :
        get_blob_path(key) \notin stored =>
            /\ ~fs_exists(fsys, key)
            /\ fs_get(fsys, key).status = "NotFound"
            /\ fs_delete(fsys, key).status = "NotFound"

(***************************************************************************)
(* The registry cache (checked under SpecReg).                             *)
(***************************************************************************)
WrapsCachedBase(k) ==
    /\ regCache[k].class = "PrefixedBlobBackend"
    /\ BaseOf(k) \in DOMAIN regCache
    /\ regCache[k].delegate = regCache[BaseOf(k)].id
    /\ regCache[k].config = regConfig[BaseOf(k)]
    /\ regCache[BaseOf(k)].config = regConfig[BaseOf(k)]

Dotted(k) == parse_name(k).prefix # <<>>

\* C28, as stated: every cached entry under a dotted name "b.p" is a prefix
\* wrapper of the instance cached under "b", built from the current
\* configuration of b; register(name, cfg) evicts no cached entry whose base
\* name differs from name.
C28_WrappersAndBaseOnlyEviction ==
    /\ \A k \in DOMAIN regCache : Dotted(k) => WrapsCachedBase(k)
    /\ regLast.op = "register" => \A k \in regLast.evicted : BaseOf(k) = regLast.name

\* C28, amended: every cached entry under a dotted name "b.p" is a prefix
\* wrapper of the instance cached under "b", built from the current
\* configuration of b; register(name, cfg) evicts exactly the cached entries
\* whose key starts with name as a string, entries of another base whose
\* name begins with name among them.
C28_WrappersAndPrefixEviction ==
    /\ \A k \in DOMAIN regCache : Dotted(k) => WrapsCachedBase(k)
    /\ regLast.op = "register" =>
          /\ \A k \in regLast.evicted : StartsWith(k, regLast.name)
          /\ \A k \in DOMAIN regCache : ~StartsWith(k, regLast.name)

\* register("de", cfg) has evicted the entries cached under "dev" and
\* "dev.img", whose base name is not "de".
C28_Witness ==
    /\ regLast.op = "register"
    /\ regLast.name = <<"de">>
    /\ <<"de", "v", Dot, "img">> \in regLast.evicted
    /\ <<"de", "v">> \in regLast.evicted

(***************************************************************************)
(* The statistics of transform_daily_prices (checked under SpecGold).      *)
(***************************************************************************)
WrittenStocks == {c \in Codes : get_gold_key(c) \in lastT.puts}

\* The Silver rows of stock c that the call merged into its Gold file: all
\* of them with force or with no file before the call, else those of the
\* dates the file did not have.
MergedRows(c) ==
    SelectSeq(StockRows(lastT.df, c),
              LAMBDA r : lastT.force \/ r.date \notin DateSet(GoldRows(lastT.pre, c)))

RECURSIVE SumMerged(_)
SumMerged(codes) ==
    IF codes = <<>> THEN 0
    ELSE (IF Head(codes) \in WrittenStocks THEN Len(MergedRows(Head(codes))) ELSE 0)
         + SumMerged(Tail(codes))

\* C30: the statistics a transform returns tell what it persisted:
\* stocks_updated is the number of stocks whose Gold file the call wrote and
\* records_written the number of Silver rows merged into those files; a call
\* that wrote nothing reports 0 for both.
C30_StatsDescribeWrites ==
    lastT.kind = "transform" =>
        /\ lastT.stats.stocks_updated = Cardinality(WrittenStocks)
        /\ lastT.stats.records_written = SumMerged(CodeSeq)

(***************************************************************************)
(* Per-stock failures of a transform (checked under SpecFaults).           *)
(***************************************************************************)
StocksOf(df) == {df[i].code : i \in 1..Len(df)}

\* C21: when the update of a stock raises inside transform_daily_prices, the
\* call still returns its statistics; every other stock of the batch is
\* merged and written as on a store without failures, and the statistics
\* count exactly the stocks whose update did not raise.
C21_FailureContainedPerStock ==
    faultLast.kind = "transform" =>
        /\ faultLast.failed \cup faultLast.counted = StocksOf(faultLast.df)
        /\ faultLast.failed \cap faultLast.counted = {}
        /\ faultLast.stocks_updated = Cardinality(faultLast.counted)
        /\ \A c \in faultLast.counted :
              \E o \in update_stock_data(faultLast.pre, c, StockRows(faultLast.df, c),
                                         faultLast.force) :
                 /\ exists(gold, get_gold_key(c)) <=> exists(o.store, get_gold_key(c))
                 /\ GoldRows(gold, c) = GoldRows(o.store, c)

\* The update of the first stock raised and the second stock got its Gold
\* file.
C21_Witness ==
    /\ faultLast.kind = "transform"
    /\ faultLast.failed = {"c1"}
    /\ faultLast.counted = {"c2"}
    /\ ~exists(faultLast.pre, get_gold_key("c2"))
    /\ exists(gold, get_gold_key("c2"))

(***************************************************************************)
(* Properties of listing (checked under SpecList).                         *)
(***************************************************************************)
PrefixOf(prefix) == IF Given(prefix) THEN prefix ELSE <<>>

\* The first-level "directories" under the prefix that contain blobs.
ChildPrefixes(blobs, prefix, delimiter) ==
    {PrefixOf(prefix) \o FirstPart(DropFirst(k, Len(PrefixOf(prefix)))) \o delimiter :
        k \in {x \in blobs : /\ StartsWith(x, PrefixOf(prefix))
                             /\ Contains(DropFirst(x, Len(PrefixOf(prefix))), Sep)}}

\* C25: list_prefixes(prefix, delimiter) returns exactly the immediate child
\* prefixes under the prefix, one for each first-level directory that
\* contains blobs, whatever blobs lie at that level.
C25_ListPrefixesExact ==
    listLast.op = "list_prefixes" =>
        listLast.value = ChildPrefixes(listLast.blobs, listLast.prefix, listLast.delimiter)

RECURSIVE Take(_, _)
Take(s, n) == IF n = 0 \/ s = <<>> THEN <<>> ELSE <<Head(s)>> \o Take(Tail(s), n - 1)

\* C26: FilesystemBackend.list_blobs(prefix, marker = m) returns, in key
\* order and up to max_results, the blobs under the prefix whose key is
\* greater than m, whether or not a blob with key m exists.
C26_MarkerSkipsUpTo ==
    (/\ listLast.op = "list_blobs"
     /\ listLast.backend = "filesystem"
     /\ listLast.delimiter = None
     /\ listLast.marker # None) =>
        BlobKeys(listLast.value.blobs)
            = Take(SortPaths({k \in listLast.blobs :
                                /\ StartsWith(k, PrefixOf(listLast.prefix))
                                /\ PathLess(listLast.marker, k)}),
                   listLast.max_results)

\* The blobs a listing is to yield: all under the prefix, or with a
\* delimiter those at the first level.
Listed(blobs, prefix, delimiter) ==
    {k \in blobs : /\ StartsWith(k, PrefixOf(prefix))
                   /\ delimiter # None => ~Contains(DropFirst(k, Len(PrefixOf(prefix))), Sep)}

\* C27: iterating BlobStorage.list over an unchanging store terminates, for
\* every page size and delimiter setting, and yields every blob under the
\* prefix exactly once.
C27_ListTerminatesExactlyOnce ==
    listLast.op = "list" =>
        /\ listLast.value.terminates
        /\ listLast.value.yielded
             = SortPaths(Listed(listLast.blobs, listLast.prefix, listLast.delimiter))

(***************************************************************************)
(* Properties of the Stock facade (checked under SpecStock).               *)
(***************************************************************************)
\* C23: after any writes of listed_info partitions and loader calls, the
\* loader returns the current contents of the partition with the maximum
\* date.
C23_LoaderReturnsCurrentLatest ==
    (stockLast.op = "load" /\ DOMAIN stockLast.listed # {}) =>
        stockLast.df = stockLast.listed[SetMax(DOMAIN stockLast.listed)]

MinStr(S) == CHOOSE x \in S : \A y \in S \ {x} : StrLess(x, y)

\* Among several candidates one ending in "0" is preferred, else the
\* lexicographic minimum.
Preferred(S) ==
    IF \E c \in S : endswith0(c) THEN MinStr({c \in S : endswith0(c)}) ELSE MinStr(S)

Extensions(S, code) == {c \in S : StartsWith(c, code) /\ c # code}

\* C22 as stated: a 5-digit numeric input comes back unchanged; a 4-digit
\* numeric input resolves to the preferred code among its extensions in the
\* snapshot, else among those in Gold, else to input + "0"; any other input
\* raises ValueError.
C22_ResolveByExtensions ==
    stockLast.op = "resolve" =>
        LET code == stockLast.code
            in_table == Extensions(stockLast.table, code)
            in_gold == Extensions(stockLast.stocks, code)
        IN  IF isdigit(code) /\ Len(code) = 5
            THEN stockLast.result = [error |-> "none", value |-> code]
            ELSE IF isdigit(code) /\ Len(code) = 4
            THEN stockLast.result.error = "none" /\ stockLast.result.value =
                    (IF in_table # {} THEN Preferred(in_table)
                     ELSE IF in_gold # {} THEN Preferred(in_gold)
                     ELSE code \o <<"0">>)
            ELSE stockLast.result.error = "ValueError"

\* C22 amended: the input is trimmed first; a 4-digit input that is itself a
\* code of the snapshot comes back unchanged; otherwise the candidates are
\* the codes of the snapshot that start with it, else those of Gold that
\* start with it (the input itself among them).
C22_ResolveTrimmedExactFirst ==
    stockLast.op = "resolve" =>
        LET code == strip(stockLast.code)
            in_table == {c \in stockLast.table : StartsWith(c, code)}
            in_gold == {c \in stockLast.stocks : StartsWith(c, code)}
        IN  IF isdigit(code) /\ Len(code) = 5
            THEN stockLast.result = [error |-> "none", value |-> code]
            ELSE IF isdigit(code) /\ Len(code) = 4
            THEN stockLast.result.error = "none" /\ stockLast.result.value =
                    (IF code \in stockLast.table THEN code
                     ELSE IF in_table # {} THEN Preferred(in_table)
                     ELSE IF in_gold # {} THEN Preferred(in_gold)
                     ELSE code \o <<"0">>)
            ELSE stockLast.result.error = "ValueError"

\* A 4-digit input resolved from Gold to the candidate ending in "0", which
\* is not the least candidate.
C22_Witness ==
    /\ stockLast.op = "resolve"
    /\ stockLast.code = Base
    /\ stockLast.table = {}
    /\ stockLast.stocks = {Base, Base \o <<"0">>}
    /\ stockLast.result.value = Base \o <<"0">>

(***************************************************************************)
(* Properties of price adjustment (checked under SpecAdjust).              *)
(***************************************************************************)
Coalesce(cell, x) == IF cell = Null THEN x ELSE Value(cell)

\* The adjusted price and volume of a stored row.
AdjPrice(raw, col) ==
    IF raw[col] = Null THEN Null
    ELSE {Value(raw[col]) * Coalesce(raw.adjustment_factor, 1)}
AdjVolume(raw) ==
    IF raw.volume = Null \/ Coalesce(raw.adjustment_factor, 1) = 0 THEN raw.volume
    ELSE {Value(raw.volume) \div Coalesce(raw.adjustment_factor, 1)}

============================================================================
